---- MODULE Spec2Model ----
(***************************************************************************)
(* Habit-tracker scripts (setup.py, add_metric.py, delete_metric.py,       *)
(* generate_heatmap.py, generate_tracker.py) run one after another against *)
(* a remote record store holding a metrics collection and a tracker        *)
(* collection.  Every remote operation goes through the script's own       *)
(* api_call wrapper (3 attempts, exponential backoff on 429/502/503,       *)
(* 0.4 s pacing after a success).                                          *)
(*                                                                         *)
(* One step of the model is one invocation of the wrapped remote operation *)
(* together with the script code that runs up to the next invocation.      *)
(* Times are in milliseconds.  Texts (error messages, week keys, typed     *)
(* answers) are sequences of one-character strings.                        *)
(***************************************************************************)
EXTENDS Integers, Sequences, FiniteSets, TLC

VARIABLES
    metricsDb,      \* remote "My Metrics" collection: sequence of pages, id = index
    trackerDb,      \* remote "Weekly Tracker" collection: sequence of pages, id = index
    pc,             \* position of the running script ("idle" between commands)
    cmd,            \* the running (or last) command and its arguments
    exit,           \* how the last command ended: "running", "0", "1", "raised"
    call,           \* the current/last logical api_call: attempt, status, event log
    cursor,         \* cursor / start_cursor local of the running fetch loop
    existing,       \* existing / existing_weeks set built by the fetch loop
    pages,          \* pages list accumulated by the running fetch loop
    metric_pages,   \* delete_metric: result of the first fetch_all_pages
    tracker_pages,  \* delete_metric: result of the second fetch_all_pages
    needed,         \* needed list of the create loop
    count,          \* number of completed iterations of the create / archive loops
    metrics,        \* generate_tracker: list built by fetch_metrics
    data,           \* generate_tracker: mapping built by fetch_tracker_data
    hist,           \* history of the running command (queries, fetched ids, creates, archives)
    prev,           \* the command that ran before the current one, and how it ended
    faults,         \* number of failed remote invocations so far
    runs,           \* number of commands started so far
    gw,             \* the last get_weeks call: script, year and the list it returned
    gws,            \* get_weeks of the three scripts called for one year: the year, the lists
    scores,         \* generate_heatmap: mapping built by compute_daily_scores
    stats,          \* generate_heatmap: summary statistics of generate_html
    streaks         \* generate_heatmap: date.today() and the two streaks of generate_html

stores == <<metricsDb, trackerDb>>
locals == <<cursor, existing, pages, metric_pages, tracker_pages, needed, count, metrics, data>>
heat == <<scores, stats, streaks>>
vars == <<metricsDb, trackerDb, pc, cmd, exit, call, cursor, existing, pages,
          metric_pages, tracker_pages, needed, count, metrics, data,
          hist, prev, faults, runs, gw, gws, scores, stats, streaks>>

-----------------------------------------------------------------------------
(* Bounds of the model *)

\* number of leading weeks of get_weeks(YEAR) a sync run works over
MaxWeeks == 2
\* records per page the store returns (the scripts ask for page_size=100)
PageLen == 2
\* failed remote invocations in one behaviour
MaxFaults == 2
\* commands started in one behaviour
MaxRuns == 2
\* the years get_weeks is applied to: FirstYear..LastYear
FirstYear == 2000
LastYear == 2027
\* tracker pages handed to compute_daily_scores
MaxPages == 3

-----------------------------------------------------------------------------
(* Program constants *)

YEAR == 2026
DAY_NAMES == <<"Mon", "Tue", "Wed", "Thu", "Fri", "Sat", "Sun">>
MONTHS == <<"January", "February", "March", "April", "May", "June",
            "July", "August", "September", "October", "November", "December">>
MONTH_ABBR == <<"Jan", "Feb", "Mar", "Apr", "May", "Jun",
                "Jul", "Aug", "Sep", "Oct", "Nov", "Dec">>
retries == 3
PACE_MS == 400

None == <<>>

-----------------------------------------------------------------------------
(* Texts *)

\* Python's `sub in s`
Contains(s, sub) ==
    \E i \in 1..(Len(s) - Len(sub) + 1) : SubSeq(s, i, i + Len(sub) - 1) = sub

S429 == <<"4", "2", "9">>
S502 == <<"5", "0", "2">>
S503 == <<"5", "0", "3">>

\* f"{n:02d}" for n >= 0: decimal digits, zero-padded to at least two
DIGITS == <<"0", "1", "2", "3", "4", "5", "6", "7", "8", "9">>

RECURSIVE Digits(_)
Digits(n) == IF n < 10 THEN <<DIGITS[n + 1]>> ELSE Digits(n \div 10) \o <<DIGITS[(n % 10) + 1]>>

\* Pad2 without the zero padding
Pad2_plain(n) == Digits(n)

Pad2(n) == IF n < 10 THEN <<"0">> \o Digits(n) ELSE Digits(n)

Min(a, b) == IF a < b THEN a ELSE b

-----------------------------------------------------------------------------
(* datetime.date: a date is its proleptic Gregorian ordinal (Jan 1 of year 1 is 1) *)

IsLeap(y) == (y % 4 = 0) /\ ((y % 100 # 0) \/ (y % 400 = 0))

DaysInMonth(y, m) ==
    IF m = 2 THEN (IF IsLeap(y) THEN 29 ELSE 28)
    ELSE IF m \in {4, 6, 9, 11} THEN 30 ELSE 31

\* days of a common year that precede the first day of each month
DAYS_BEFORE_MONTH == <<0, 31, 59, 90, 120, 151, 181, 212, 243, 273, 304, 334>>

DaysBeforeMonth(y, m) == DAYS_BEFORE_MONTH[m] + (IF m > 2 /\ IsLeap(y) THEN 1 ELSE 0)

DaysBeforeYear(y) ==
    (y - 1) * 365 + ((y - 1) \div 4) - ((y - 1) \div 100) + ((y - 1) \div 400)

\* date(y, m, d)
Date(y, m, d) == DaysBeforeYear(y) + DaysBeforeMonth(y, m) + d

\* d.year
YearOf(n) ==
    CHOOSE y \in (n \div 366)..((n \div 365) + 1) :
        DaysBeforeYear(y) < n /\ n <= DaysBeforeYear(y + 1)

\* d.month
MonthOf(n) ==
    LET y == YearOf(n)
        doy == n - DaysBeforeYear(y)
    IN CHOOSE m \in 1..12 :
        DaysBeforeMonth(y, m) < doy /\ doy <= DaysBeforeMonth(y, m) + DaysInMonth(y, m)

\* d.day
DayOf(n) ==
    LET y == YearOf(n) IN n - DaysBeforeYear(y) - DaysBeforeMonth(y, MonthOf(n))

\* d.weekday(): Monday is 0
Weekday(n) == (n + 6) % 7

\* d.strftime('%b %d')
StrfBd(n) == <<MONTH_ABBR[MonthOf(n)], " ">> \o Pad2(DayOf(n))

-----------------------------------------------------------------------------
(* Calendar bucketer *)

\* position of a day name in DAY_NAMES, counted from 0 (enumerate)
DayIndex(name) == (CHOOSE i \in 1..Len(DAY_NAMES) : DAY_NAMES[i] = name) - 1

DayNameSet == {DAY_NAMES[i] : i \in 1..Len(DAY_NAMES)}

\* setup.get_weeks: the body of the while loop, from `monday` on
RECURSIVE setup_weeks_from(_, _, _)
setup_weeks_from(year, monday, week_num) ==
    LET sunday == monday + 6 IN
    IF YearOf(monday) > year THEN <<>>
    ELSE
      LET thursday == monday + 3
          month_num == IF YearOf(thursday) < year THEN 1
                       ELSE IF YearOf(thursday) > year THEN 12
                       ELSE MonthOf(thursday)
          days == [name \in DayNameSet |-> monday + DayIndex(name)]
      IN <<[week_num   |-> week_num,
            monday     |-> monday,
            sunday     |-> sunday,
            month_num  |-> month_num,
            month_name |-> MONTHS[month_num],
            label      |-> StrfBd(monday) \o <<" - ">> \o StrfBd(sunday),
            days       |-> days,
            week_key   |-> <<"W">> \o Pad2(week_num)]>>
         \o setup_weeks_from(year, monday + 7, week_num + 1)

setup_get_weeks(year) ==
    LET jan1 == Date(year, 1, 1)
        first_monday == jan1 - Weekday(jan1)
    IN setup_weeks_from(year, first_monday, 1)

\* add_metric_weeks_from taking the Thursday's month without clamping it to year
RECURSIVE add_metric_weeks_from_unclamped(_, _, _)
add_metric_weeks_from_unclamped(year, monday, week_num) ==
    LET sunday == monday + 6 IN
    IF YearOf(monday) > year THEN <<>>
    ELSE
      LET thursday == monday + 3
          month_num == MonthOf(thursday)
      IN <<[week_num   |-> week_num,
            month_name |-> MONTHS[month_num],
            label      |-> StrfBd(monday) \o <<" - ">> \o StrfBd(sunday),
            week_key   |-> <<"W">> \o Pad2(week_num)]>>
         \o add_metric_weeks_from_unclamped(year, monday + 7, week_num + 1)

\* add_metric.get_weeks: the body of the while loop, from `monday` on
RECURSIVE add_metric_weeks_from(_, _, _)
add_metric_weeks_from(year, monday, week_num) ==
    LET sunday == monday + 6 IN
    IF YearOf(monday) > year THEN <<>>
    ELSE
      LET thursday == monday + 3
          month_num == IF YearOf(thursday) < year THEN 1
                       ELSE IF YearOf(thursday) > year THEN 12
                       ELSE MonthOf(thursday)
      IN <<[week_num   |-> week_num,
            month_name |-> MONTHS[month_num],
            label      |-> StrfBd(monday) \o <<" - ">> \o StrfBd(sunday),
            week_key   |-> <<"W">> \o Pad2(week_num)]>>
         \o add_metric_weeks_from(year, monday + 7, week_num + 1)

\* add_metric_get_weeks starting at the first Monday inside the year
add_metric_get_weeks_inside(year) ==
    LET jan1 == Date(year, 1, 1)
        first_monday == jan1 + ((7 - Weekday(jan1)) % 7)
    IN add_metric_weeks_from(year, first_monday, 1)

add_metric_get_weeks(year) ==
    LET jan1 == Date(year, 1, 1)
        first_monday == jan1 - Weekday(jan1)
    IN add_metric_weeks_from(year, first_monday, 1)

\* generate_heatmap.get_weeks: the body of the while loop, from `monday` on
RECURSIVE generate_heatmap_weeks_from(_, _, _)
generate_heatmap_weeks_from(year, monday, week_num) ==
    LET sunday == monday + 6 IN
    IF YearOf(monday) > year THEN <<>>
    ELSE
      LET days == [name \in DayNameSet |-> monday + DayIndex(name)]
      IN <<[week_key |-> <<"W">> \o Pad2(week_num),
            monday   |-> monday,
            days     |-> days]>>
         \o generate_heatmap_weeks_from(year, monday + 7, week_num + 1)

\* generate_heatmap_get_weeks starting at Jan 1 itself
generate_heatmap_get_weeks_from_jan1(year) ==
    generate_heatmap_weeks_from(year, Date(year, 1, 1), 1)

generate_heatmap_get_weeks(year) ==
    LET jan1 == Date(year, 1, 1)
        first_monday == jan1 - Weekday(jan1)
    IN generate_heatmap_weeks_from(year, first_monday, 1)

\* setup.create_tracker_database: names of the options of the Week select
week_options == {<<"W">> \o Pad2(n) : n \in 1..53}

\* generate_heatmap.main: weeks = get_weeks(YEAR)
HeatmapWeeks == generate_heatmap_get_weeks(YEAR)

\* the weeks a sync run of the model works over: the first MaxWeeks weeks of the year
Prefix(s, n) == SubSeq(s, 1, Min(n, Len(s)))

SetupWeeks == Prefix(setup_get_weeks(YEAR), MaxWeeks)
AddMetricWeeks == Prefix(add_metric_get_weeks(YEAR), MaxWeeks)

-----------------------------------------------------------------------------
(* Remote record store *)

\* A page is [id, archived, properties]; its id is its index in the collection.
\* A title is the list of its text contents; a select is <<option name>> or None.

NoFilter == [property |-> "", equals |-> ""]

Matches(page, filter) ==
    \/ filter.property = ""
    \/ page.properties[filter.property] = <<filter.equals>>

\* the pages a query sees: un-archived and matching, in collection order
RECURSIVE Visible(_, _)
Visible(db, filter) ==
    IF db = <<>> THEN <<>>
    ELSE LET last == db[Len(db)]
             rest == Visible(SubSeq(db, 1, Len(db) - 1), filter)
         IN IF ~last.archived /\ Matches(last, filter) THEN Append(rest, last) ELSE rest

\* notion.data_sources.query(**kwargs) on the collection db: kwargs holds filter
\* and, optionally, page_size and start_cursor.  A cursor <<n>> names the number
\* of visible pages that precede the page it starts.
query(db, kwargs) ==
    LET all == Visible(db, kwargs.filter)
        off == IF "start_cursor" \in DOMAIN kwargs THEN kwargs.start_cursor[1] ELSE 0
        len == IF "page_size" \in DOMAIN kwargs THEN Min(kwargs.page_size, PageLen) ELSE PageLen
        has_more == off + len < Len(all)
    IN [results     |-> SubSeq(all, off + 1, Min(off + len, Len(all))),
        has_more    |-> has_more,
        next_cursor |-> IF has_more THEN <<off + len>> ELSE None]

\* notion.pages.create(parent, properties)
create(db, properties) ==
    Append(db, [id |-> Len(db) + 1, archived |-> FALSE, properties |-> properties])

\* notion.pages.update(page_id, archived=True)
archive(db, page_id) == [db EXCEPT ![page_id].archived = TRUE]

page_size == 100

\* the cursor a request asks for: None when it carries no start_cursor
StartCursor(kwargs) == IF "start_cursor" \in DOMAIN kwargs THEN kwargs.start_cursor ELSE None

-----------------------------------------------------------------------------
(* Retrying remote client: one invocation of the wrapped operation.          *)
(* c is the call record before the invocation, o the invocation's outcome    *)
(* [ok, err]; the result is the call record after it.                        *)

Invoked(attempt, o) ==
    [ev |-> "invoke", attempt |-> attempt, ok |-> o.ok, err |-> o.err, result |-> o.result, ms |-> 0]
Slept(attempt, ms) ==
    [ev |-> "sleep", attempt |-> attempt, ok |-> TRUE, err |-> None, result |-> "", ms |-> ms]

\* the loop variable and the events of the logical call this invocation belongs to
AttemptOf(c) == IF c.status = "retrying" THEN c.attempt ELSE 0
LogOf(c) == IF c.status = "retrying" THEN c.log ELSE <<>>

\* setup_api_call with the retry test `attempt < retries`
setup_api_call_retry_last(c, o) ==
    LET attempt == AttemptOf(c)
        log == Append(LogOf(c), Invoked(attempt, o))
    IN IF o.ok
       THEN [attempt |-> attempt, status |-> "returned", result |-> o.result,
             log |-> Append(log, Slept(attempt, PACE_MS))]
       ELSE IF attempt < retries
               /\ (Contains(o.err, S502) \/ Contains(o.err, S429) \/ Contains(o.err, S503))
            THEN [attempt |-> attempt + 1, status |-> "retrying", result |-> "",
                  log |-> Append(log, Slept(attempt, (2 ^ (attempt + 1)) * 1000))]
            ELSE [attempt |-> attempt, status |-> "raised", result |-> "", log |-> log]

setup_api_call(c, o) ==
    LET attempt == AttemptOf(c)
        log == Append(LogOf(c), Invoked(attempt, o))
    IN IF o.ok
       THEN [attempt |-> attempt, status |-> "returned", result |-> o.result,
             log |-> Append(log, Slept(attempt, PACE_MS))]
       ELSE LET err_str == o.err IN
            IF attempt < retries - 1
               /\ (Contains(err_str, S502) \/ Contains(err_str, S429) \/ Contains(err_str, S503))
            THEN LET wait == 2 ^ (attempt + 1) IN
                 [attempt |-> attempt + 1, status |-> "retrying", result |-> "",
                  log |-> Append(log, Slept(attempt, wait * 1000))]
            ELSE [attempt |-> attempt, status |-> "raised", result |-> "", log |-> log]

add_metric_api_call(c, o) ==
    LET attempt == AttemptOf(c)
        log == Append(LogOf(c), Invoked(attempt, o))
    IN IF o.ok
       THEN [attempt |-> attempt, status |-> "returned", result |-> o.result,
             log |-> Append(log, Slept(attempt, PACE_MS))]
       ELSE LET err_str == o.err IN
            IF attempt < retries - 1
               /\ (Contains(err_str, S502) \/ Contains(err_str, S429) \/ Contains(err_str, S503))
            THEN LET wait == 2 ^ (attempt + 1) IN
                 [attempt |-> attempt + 1, status |-> "retrying", result |-> "",
                  log |-> Append(log, Slept(attempt, wait * 1000))]
            ELSE [attempt |-> attempt, status |-> "raised", result |-> "", log |-> log]

\* delete_metric_api_call with the pacing sleep in a `finally`
delete_metric_api_call_pace_always(c, o) ==
    LET attempt == AttemptOf(c)
        log == Append(LogOf(c), Invoked(attempt, o))
    IN IF o.ok
       THEN [attempt |-> attempt, status |-> "returned", result |-> o.result,
             log |-> Append(log, Slept(attempt, PACE_MS))]
       ELSE IF attempt < retries - 1
               /\ (Contains(o.err, S502) \/ Contains(o.err, S429) \/ Contains(o.err, S503))
            THEN [attempt |-> attempt + 1, status |-> "retrying", result |-> "",
                  log |-> Append(Append(log, Slept(attempt, PACE_MS)),
                                 Slept(attempt, (2 ^ (attempt + 1)) * 1000))]
            ELSE [attempt |-> attempt, status |-> "raised", result |-> "",
                  log |-> Append(log, Slept(attempt, PACE_MS))]

delete_metric_api_call(c, o) ==
    LET attempt == AttemptOf(c)
        log == Append(LogOf(c), Invoked(attempt, o))
    IN IF o.ok
       THEN [attempt |-> attempt, status |-> "returned", result |-> o.result,
             log |-> Append(log, Slept(attempt, PACE_MS))]
       ELSE LET err_str == o.err IN
            IF attempt < retries - 1
               /\ (Contains(err_str, S502) \/ Contains(err_str, S429) \/ Contains(err_str, S503))
            THEN LET wait == 2 ^ (attempt + 1) IN
                 [attempt |-> attempt + 1, status |-> "retrying", result |-> "",
                  log |-> Append(log, Slept(attempt, wait * 1000))]
            ELSE [attempt |-> attempt, status |-> "raised", result |-> "", log |-> log]

\* generate_heatmap_api_call retrying whatever the message says
generate_heatmap_api_call_any_error(c, o) ==
    LET attempt == AttemptOf(c)
        log == Append(LogOf(c), Invoked(attempt, o))
    IN IF o.ok
       THEN [attempt |-> attempt, status |-> "returned", result |-> o.result,
             log |-> Append(log, Slept(attempt, PACE_MS))]
       ELSE IF attempt < retries - 1
            THEN [attempt |-> attempt + 1, status |-> "retrying", result |-> "",
                  log |-> Append(log, Slept(attempt, (2 ^ (attempt + 1)) * 1000))]
            ELSE [attempt |-> attempt, status |-> "raised", result |-> "", log |-> log]

generate_heatmap_api_call(c, o) ==
    LET attempt == AttemptOf(c)
        log == Append(LogOf(c), Invoked(attempt, o))
    IN IF o.ok
       THEN [attempt |-> attempt, status |-> "returned", result |-> o.result,
             log |-> Append(log, Slept(attempt, PACE_MS))]
       ELSE LET err_str == o.err IN
            IF attempt < retries - 1
               /\ (Contains(err_str, S502) \/ Contains(err_str, S429) \/ Contains(err_str, S503))
            THEN [attempt |-> attempt + 1, status |-> "retrying", result |-> "",
                  log |-> Append(log, Slept(attempt, (2 ^ (attempt + 1)) * 1000))]
            ELSE [attempt |-> attempt, status |-> "raised", result |-> "", log |-> log]

\* generate_tracker_api_call sleeping 2 ** attempt
generate_tracker_api_call_short_wait(c, o) ==
    LET attempt == AttemptOf(c)
        log == Append(LogOf(c), Invoked(attempt, o))
    IN IF o.ok
       THEN [attempt |-> attempt, status |-> "returned", result |-> o.result,
             log |-> Append(log, Slept(attempt, PACE_MS))]
       ELSE IF attempt < retries - 1 /\ (\E code \in {S502, S429, S503} : Contains(o.err, code))
            THEN [attempt |-> attempt + 1, status |-> "retrying", result |-> "",
                  log |-> Append(log, Slept(attempt, (2 ^ attempt) * 1000))]
            ELSE [attempt |-> attempt, status |-> "raised", result |-> "", log |-> log]

generate_tracker_api_call(c, o) ==
    LET attempt == AttemptOf(c)
        log == Append(LogOf(c), Invoked(attempt, o))
    IN IF o.ok
       THEN [attempt |-> attempt, status |-> "returned", result |-> o.result,
             log |-> Append(log, Slept(attempt, PACE_MS))]
       ELSE IF attempt < retries - 1 /\ (\E code \in {S502, S429, S503} : Contains(o.err, code))
            THEN [attempt |-> attempt + 1, status |-> "retrying", result |-> "",
                  log |-> Append(log, Slept(attempt, (2 ^ (attempt + 1)) * 1000))]
            ELSE [attempt |-> attempt, status |-> "raised", result |-> "", log |-> log]

-----------------------------------------------------------------------------
(* Inputs *)

\* metric names, and the (name, category, target) triples the commands are given
Names == {"Exercise", "Journal"}

Exercise == [name |-> "Exercise", category |-> "Health", target |-> 5]
Journal == [name |-> "Journal", category |-> "Personal", target |-> 7]

AddMetricInputs == {Exercise, Journal}
PopulateInputs == {<<Exercise>>, <<Exercise, Journal>>}

\* messages of the exceptions a remote invocation may raise
ErrStrs == {S503, <<"4", "0", "0">>}

\* what the user may type at the confirmation prompt
Answers == {<<"y">>, <<" ", "Y", " ">>, <<>>, <<"y", "e", "s">>}

\* str.strip() and str.lower() on the texts of Answers
RECURSIVE LStrip(_)
LStrip(s) == IF s # <<>> /\ s[1] = " " THEN LStrip(Tail(s)) ELSE s

RECURSIVE RStrip(_)
RStrip(s) == IF s # <<>> /\ s[Len(s)] = " " THEN RStrip(SubSeq(s, 1, Len(s) - 1)) ELSE s

Strip(s) == RStrip(LStrip(s))

LowerChar(ch) == IF ch = "Y" THEN "y" ELSE IF ch = "N" THEN "n" ELSE ch
Lower(s) == [i \in 1..Len(s) |-> LowerChar(s[i])]

Ok == [ok |-> TRUE, err |-> None, result |-> "response"]
Fail(e) == [ok |-> FALSE, err |-> e, result |-> ""]

\* outcomes of one remote invocation: it succeeds, or fails without effect
Outcomes == {Ok} \cup (IF faults < MaxFaults THEN {Fail(e) : e \in ErrStrs} ELSE {})

-----------------------------------------------------------------------------
(* Page properties the scripts write *)

\* add_metric: properties of the My Metrics page
add_metric_metric_properties(name, category, target) ==
    [Name          |-> <<name>>,
     Category      |-> <<category>>,
     Weekly_Target |-> target,
     Active        |-> TRUE]

\* add_metric_tracker_properties writing the default category
add_metric_tracker_properties_default_category(name, category, target, week) ==
    [Metric        |-> <<name>>,
     Category      |-> <<"Personal">>,
     Month         |-> <<week.month_name>>,
     Week          |-> <<week.week_key>>,
     Week_Dates    |-> week.label,
     Mon |-> FALSE, Tue |-> FALSE, Wed |-> FALSE, Thu |-> FALSE,
     Fri |-> FALSE, Sat |-> FALSE, Sun |-> FALSE,
     Weekly_Target |-> target,
     Streak        |-> 0]

\* add_metric: properties of one tracker page
add_metric_tracker_properties(name, category, target, week) ==
    [Metric        |-> <<name>>,
     Category      |-> <<category>>,
     Month         |-> <<week.month_name>>,
     Week          |-> <<week.week_key>>,
     Week_Dates    |-> week.label,
     Mon |-> FALSE, Tue |-> FALSE, Wed |-> FALSE, Thu |-> FALSE,
     Fri |-> FALSE, Sat |-> FALSE, Sun |-> FALSE,
     Weekly_Target |-> target,
     Streak        |-> 0]

\* MONTHS.index(month_name) + 1
MonthIndex(month_name) == CHOOSE i \in 1..Len(MONTHS) : MONTHS[i] = month_name

\* the target-scaling rule stated for month buckets:
\* round(weekly_target * days_in_month / 7), and 0 for a weekly target of 0
target_scaling(weekly_target, days_in_month) ==
    IF weekly_target = 0 THEN 0
    ELSE LET num == weekly_target * days_in_month
             q == num \div 7
         IN IF 2 * (num - 7 * q) > 7 THEN q + 1 ELSE q

\* populate_tracker_properties storing the target scaled to the owning month
populate_tracker_properties_scaled(metric, week) ==
    [Metric        |-> <<metric.name>>,
     Category      |-> <<metric.category>>,
     Month         |-> <<week.month_name>>,
     Week          |-> <<week.week_key>>,
     Week_Dates    |-> week.label,
     Mon |-> FALSE, Tue |-> FALSE, Wed |-> FALSE, Thu |-> FALSE,
     Fri |-> FALSE, Sat |-> FALSE, Sun |-> FALSE,
     Weekly_Target |-> target_scaling(metric.target,
                                      DaysInMonth(YEAR, MonthIndex(week.month_name))),
     Streak        |-> 0]

\* setup.populate_tracker: properties of one tracker page
populate_tracker_properties(metric, week) ==
    [Metric        |-> <<metric.name>>,
     Category      |-> <<metric.category>>,
     Month         |-> <<week.month_name>>,
     Week          |-> <<week.week_key>>,
     Week_Dates    |-> week.label,
     Mon |-> FALSE, Tue |-> FALSE, Wed |-> FALSE, Thu |-> FALSE,
     Fri |-> FALSE, Sat |-> FALSE, Sun |-> FALSE,
     Weekly_Target |-> metric.target,
     Streak        |-> 0]

Page(id, properties) == [id |-> id, archived |-> FALSE, properties |-> properties]

-----------------------------------------------------------------------------
(* Initial stores: no two un-archived metric pages share a name, no two      *)
(* un-archived tracker pages share (metric, week).  A tracker row may lack   *)
(* its Week select (a row added by hand).                                    *)

NoWeekRow(name) ==
    [populate_tracker_properties([name |-> name, category |-> "Health", target |-> 0],
                                 SetupWeeks[1]) EXCEPT !.Week = None]

\* a row whose Monday and Thursday boxes the user has ticked
TickedRow(metric, week) ==
    [populate_tracker_properties(metric, week) EXCEPT !.Mon = TRUE, !.Thu = TRUE]

InitStores ==
    { [m |-> <<>>, t |-> <<>>],
      [m |-> <<Page(1, add_metric_metric_properties("Exercise", "Health", 5))>>,
       t |-> <<Page(1, populate_tracker_properties(Exercise, SetupWeeks[Len(SetupWeeks)])),
               Page(2, NoWeekRow("Exercise")),
               Page(3, TickedRow(Journal, SetupWeeks[1]))>>] }

NoCmd == [name |-> "none", metric |-> "", category |-> "", target |-> 0, metrics |-> <<>>]
NoHist == [fetches |-> <<>>, creates |-> <<>>, archives |-> <<>>, answer |-> None,
           startMetrics |-> <<>>, startTracker |-> <<>>]
NoCall == [attempt |-> 0, status |-> "none", result |-> "", log |-> <<>>]
NoWeeks == [script |-> "none", year |-> 0, weeks |-> <<>>]
NoAllWeeks == [year |-> 0, setup |-> <<>>, add_metric |-> <<>>, generate_heatmap |-> <<>>]
NoScores == <<>>
NoStats == [total_days |-> 0, active_days |-> 0, avg_score |-> 0, perfect_days |-> 0]
\* today is 0 as long as date.today() was not read
NoStreaks == [today |-> 0, current_streak |-> 0, longest_streak |-> 0]

Init ==
    /\ \E s \in InitStores : metricsDb = s.m /\ trackerDb = s.t
    /\ pc = "idle"
    /\ cmd = NoCmd
    /\ exit = "none"
    /\ call = NoCall
    /\ cursor = None
    /\ existing = {}
    /\ pages = <<>>
    /\ metric_pages = <<>>
    /\ tracker_pages = <<>>
    /\ needed = <<>>
    /\ count = 0
    /\ metrics = <<>>
    /\ data = [keys |-> {}, checked |-> {}]
    /\ hist = NoHist
    /\ prev = [cmd |-> NoCmd, exit |-> "none", created |-> 0]
    /\ faults = 0
    /\ runs = 0
    /\ gw = NoWeeks
    /\ gws = NoAllWeeks
    /\ scores = NoScores
    /\ stats = NoStats
    /\ streaks = NoStreaks

-----------------------------------------------------------------------------
(* History of the running command *)

BeginFetch(h, ds, filter) ==
    [h EXCEPT !.fetches = Append(@, [ds |-> ds, filter |-> filter, queried |-> <<>>,
                                     got |-> <<>>, done |-> FALSE])]

Ids(results) == [i \in 1..Len(results) |-> results[i].id]

NoteQuery(h, kwargs, resp) ==
    [h EXCEPT !.fetches[Len(h.fetches)] =
        [@ EXCEPT !.queried = Append(@, StartCursor(kwargs)),
                  !.got = @ \o Ids(resp.results),
                  !.done = ~resp.has_more]]

NoteCreate(h, properties) == [h EXCEPT !.creates = Append(@, properties)]
NoteArchive(h, ds, id) == [h EXCEPT !.archives = Append(@, <<ds, id>>)]

\* elements of a sequence, as a set
Range(s) == {s[i] : i \in 1..Len(s)}

-----------------------------------------------------------------------------
(* Steps shared by all scripts *)

Goto(label) == pc' = label /\ UNCHANGED exit
Finish(code) == pc' = "idle" /\ exit' = code

\* a command starts: fresh locals, and the previous command is remembered
Begin(c, label) ==
    /\ pc = "idle"
    /\ UNCHANGED <<gw, gws>>
    /\ runs < MaxRuns
    /\ cmd' = c
    /\ pc' = label
    /\ exit' = "running"
    /\ prev' = [cmd |-> cmd, exit |-> exit, created |-> Len(hist.creates)]
    /\ runs' = runs + 1
    /\ cursor' = None
    /\ existing' = {}
    /\ pages' = <<>>
    /\ metric_pages' = <<>>
    /\ tracker_pages' = <<>>
    /\ needed' = <<>>
    /\ count' = 0
    /\ metrics' = <<>>
    /\ data' = [keys |-> {}, checked |-> {}]
    /\ scores' = NoScores
    /\ stats' = NoStats
    /\ streaks' = NoStreaks
    /\ UNCHANGED <<stores, call, faults>>

StartHist == [NoHist EXCEPT !.startMetrics = metricsDb, !.startTracker = trackerDb]

\* Failed with the exception caught by the caller, which carries on
Failed_swallowed(c) ==
    /\ faults' = faults + 1
    /\ UNCHANGED <<pc, exit>>
    /\ UNCHANGED <<stores, locals, hist, cmd, prev, runs>>

\* the invocation raised: api_call backs off and will invoke again, or re-raises
\* and the exception ends the script
Failed(c) ==
    /\ faults' = faults + 1
    /\ IF c.status = "raised" THEN Finish("raised") ELSE UNCHANGED <<pc, exit>>
    /\ UNCHANGED <<stores, locals, hist, cmd, prev, runs>>

-----------------------------------------------------------------------------
(* add_metric.py: add_metric(name, category, target) *)

StartAddMetric ==
    \E m \in AddMetricInputs :
        /\ Begin([name |-> "add_metric", metric |-> m.name, category |-> m.category,
                  target |-> m.target, metrics |-> <<>>], "am_check")
        /\ hist' = StartHist

\* add_metric_check_kwargs filtering on the literal text "name"
add_metric_check_kwargs_literal(name) ==
    [data_source_id |-> "metrics", filter |-> [property |-> "Name", equals |-> "name"]]

\* arguments of the existence query
add_metric_check_kwargs(name) ==
    [data_source_id |-> "metrics", filter |-> [property |-> "Name", equals |-> name]]

\* arguments of one query of the fetch loop
add_metric_kwargs(name, start) ==
    LET kwargs == [data_source_id |-> "tracker",
                   filter |-> [property |-> "Metric", equals |-> name],
                   page_size |-> page_size]
    IN IF start # None THEN [start_cursor |-> start] @@ kwargs ELSE kwargs

\* add_metric_exists that never finds the metric
add_metric_exists_ignored(found) == FALSE

\* `if existing["results"]`
add_metric_exists(found) == found.results # <<>>

\* existing = api_call(query My Metrics by Name); exit(1) if it has results
AmCheck ==
    /\ pc = "am_check"
    /\ UNCHANGED <<gw, gws, heat>>
    /\ \E o \in Outcomes :
        LET c == add_metric_api_call(call, o) IN
        /\ call' = c
        /\ IF c.status # "returned" THEN Failed(c)
           ELSE LET found == query(metricsDb, add_metric_check_kwargs(cmd.metric))
                IN /\ IF add_metric_exists(found) THEN Finish("1") ELSE Goto("am_create_metric")
                   /\ UNCHANGED <<stores, locals, hist, cmd, prev, faults, runs>>

\* api_call(create the My Metrics page); then the fetch loop starts
AmCreateMetric ==
    /\ pc = "am_create_metric"
    /\ UNCHANGED <<gw, gws, heat>>
    /\ \E o \in Outcomes :
        LET c == add_metric_api_call(call, o) IN
        /\ call' = c
        /\ IF c.status # "returned" THEN Failed(c)
           ELSE /\ metricsDb' = create(metricsDb,
                        add_metric_metric_properties(cmd.metric, cmd.category, cmd.target))
                /\ existing' = {}
                /\ cursor' = None
                /\ hist' = BeginFetch(hist, "tracker", [property |-> "Metric", equals |-> cmd.metric])
                /\ Goto("am_fetch")
                /\ UNCHANGED <<trackerDb, pages, metric_pages, tracker_pages, needed, count,
                               metrics, data, cmd, prev, faults, runs>>

\* add_metric_needed without the `not in existing_weeks` test
add_metric_needed_all(weeks, existing_weeks) == weeks

\* the weeks of `weeks` whose key is not in existing_weeks, in order
add_metric_needed(weeks, existing_weeks) ==
    LET Missing(w) == w.week_key \notin existing_weeks IN SelectSeq(weeks, Missing)

\* week keys of the pages of one response that carry a Week select
add_metric_week_names(results) ==
    {results[i].properties.Week[1] :
        i \in {j \in 1..Len(results) : results[j].properties.Week # None}}

\* one pass of the `while True` fetch loop; after the last page, needed is built
AmFetch ==
    /\ pc = "am_fetch"
    /\ UNCHANGED <<gw, gws, heat>>
    /\ \E o \in Outcomes :
        LET c == add_metric_api_call(call, o) IN
        /\ call' = c
        /\ IF c.status # "returned" THEN Failed(c)
           ELSE LET kwargs == add_metric_kwargs(cmd.metric, cursor)
                    resp == query(trackerDb, kwargs)
                    existing_weeks == existing \cup add_metric_week_names(resp.results)
                IN /\ existing' = existing_weeks
                   /\ hist' = NoteQuery(hist, kwargs, resp)
                   /\ IF ~resp.has_more
                      THEN LET todo == add_metric_needed(AddMetricWeeks, existing_weeks) IN
                           /\ needed' = todo
                           /\ IF todo = <<>> THEN Finish("0") ELSE Goto("am_create")
                           /\ UNCHANGED cursor
                      ELSE /\ cursor' = resp.next_cursor
                           /\ Goto("am_fetch")
                           /\ UNCHANGED needed
                   /\ UNCHANGED <<stores, pages, metric_pages, tracker_pages, count,
                                  metrics, data, cmd, prev, faults, runs>>

\* one iteration of `for i, week in enumerate(needed, 1)`
AmCreate ==
    /\ pc = "am_create"
    /\ UNCHANGED <<gw, gws, heat>>
    /\ \E o \in Outcomes :
        LET c == add_metric_api_call(call, o) IN
        /\ call' = c
        /\ IF c.status # "returned" THEN Failed(c)
           ELSE LET week == needed[count + 1]
                    properties == add_metric_tracker_properties(cmd.metric, cmd.category,
                                                                cmd.target, week)
                IN /\ trackerDb' = create(trackerDb, properties)
                   /\ hist' = NoteCreate(hist, properties)
                   /\ count' = count + 1
                   /\ IF count + 1 = Len(needed) THEN Finish("0") ELSE Goto("am_create")
                   /\ UNCHANGED <<metricsDb, cursor, existing, pages, metric_pages,
                                  tracker_pages, needed, metrics, data, cmd, prev, faults, runs>>

-----------------------------------------------------------------------------
(* setup.py: populate_tracker(tracker_db_id, tracker_ds_id, metrics, weeks) *)

StartPopulate ==
    \E ms \in PopulateInputs :
        /\ Begin([name |-> "populate_tracker", metric |-> "", category |-> "",
                  target |-> 0, metrics |-> ms], "pt_fetch")
        /\ hist' = BeginFetch(StartHist, "tracker", NoFilter)

\* populate_tracker_pairs reading only the first page of each response
populate_tracker_pairs_first(results) ==
    {<<results[i].properties.Metric[1], results[i].properties.Week[1]>> :
        i \in {j \in 1..Min(1, Len(results)) :
                 /\ results[j].properties.Metric # <<>>
                 /\ results[j].properties.Week # None}}

\* (name, week) pairs of the pages of one response that carry a title and a Week select
populate_tracker_pairs(results) ==
    {<<results[i].properties.Metric[1], results[i].properties.Week[1]>> :
        i \in {j \in 1..Len(results) :
                 /\ results[j].properties.Metric # <<>>
                 /\ results[j].properties.Week # None}}

\* populate_tracker_needed without the `not in existing` test
populate_tracker_needed_all(ms, weeks, exist) ==
    [k \in 1..(Len(ms) * Len(weeks)) |->
        [metric |-> ms[((k - 1) \div Len(weeks)) + 1],
         week   |-> weeks[((k - 1) % Len(weeks)) + 1]]]

\* needed: for metric in metrics, for week in weeks, the pairs not in existing
populate_tracker_needed(ms, weeks, exist) ==
    LET all == [k \in 1..(Len(ms) * Len(weeks)) |->
                  [metric |-> ms[((k - 1) \div Len(weeks)) + 1],
                   week   |-> weeks[((k - 1) % Len(weeks)) + 1]]]
        Missing(e) == <<e.metric.name, e.week.week_key>> \notin exist
    IN SelectSeq(all, Missing)

\* arguments of one query of the fetch loop
populate_tracker_kwargs(start) ==
    LET kwargs == [data_source_id |-> "tracker", filter |-> NoFilter, page_size |-> page_size]
    IN IF start # None THEN [start_cursor |-> start] @@ kwargs ELSE kwargs

PtFetch ==
    /\ pc = "pt_fetch"
    /\ UNCHANGED <<gw, gws, heat>>
    /\ \E o \in Outcomes :
        LET c == setup_api_call(call, o) IN
        /\ call' = c
        /\ IF c.status # "returned" THEN Failed(c)
           ELSE LET kwargs == populate_tracker_kwargs(cursor)
                    resp == query(trackerDb, kwargs)
                    exist == existing \cup populate_tracker_pairs(resp.results)
                IN /\ existing' = exist
                   /\ hist' = NoteQuery(hist, kwargs, resp)
                   /\ IF ~resp.has_more
                      THEN LET todo == populate_tracker_needed(cmd.metrics, SetupWeeks, exist) IN
                           /\ needed' = todo
                           /\ IF Len(todo) = 0 THEN Finish("0") ELSE Goto("pt_create")
                           /\ UNCHANGED cursor
                      ELSE /\ cursor' = resp.next_cursor
                           /\ Goto("pt_fetch")
                           /\ UNCHANGED needed
                   /\ UNCHANGED <<stores, pages, metric_pages, tracker_pages, count,
                                  metrics, data, cmd, prev, faults, runs>>

PtCreate ==
    /\ pc = "pt_create"
    /\ UNCHANGED <<gw, gws, heat>>
    /\ \E o \in Outcomes :
        LET c == setup_api_call(call, o) IN
        /\ call' = c
        /\ IF c.status # "returned" THEN Failed(c)
           ELSE LET e == needed[count + 1]
                    properties == populate_tracker_properties(e.metric, e.week)
                IN /\ trackerDb' = create(trackerDb, properties)
                   /\ hist' = NoteCreate(hist, properties)
                   /\ count' = count + 1
                   /\ IF count + 1 = Len(needed) THEN Finish("0") ELSE Goto("pt_create")
                   /\ UNCHANGED <<metricsDb, cursor, existing, pages, metric_pages,
                                  tracker_pages, needed, metrics, data, cmd, prev, faults, runs>>

-----------------------------------------------------------------------------
(* delete_metric.py: delete_metric(name), with fetch_all_pages inlined *)

\* fetch_all_pages_kwargs that never passes start_cursor on
fetch_all_pages_kwargs_no_cursor(ds_id, filter_obj, start_cursor) ==
    [data_source_id |-> ds_id, filter |-> filter_obj, page_size |-> page_size]

\* fetch_all_pages: arguments of one query
fetch_all_pages_kwargs(ds_id, filter_obj, start_cursor) ==
    LET kwargs == [data_source_id |-> ds_id, filter |-> filter_obj, page_size |-> page_size]
    IN IF start_cursor # None THEN [start_cursor |-> start_cursor] @@ kwargs ELSE kwargs

\* filter of the first fetch_all_pages
delete_metric_metric_filter(name) == [property |-> "Name", equals |-> name]

\* delete_metric_tracker_filter that matches every tracker page
delete_metric_tracker_filter_all(name) == NoFilter

\* filter of the second fetch_all_pages
delete_metric_tracker_filter(name) == [property |-> "Metric", equals |-> name]

\* delete_metric_not_found that never reports a missing metric
delete_metric_not_found_never(found) == FALSE

\* `if not metric_pages`
delete_metric_not_found(found) == found = <<>>

\* delete_metric_declined that accepts any answer starting with y
delete_metric_declined_unless_prefix(confirm) == ~(confirm # <<>> /\ confirm[1] = "y")

\* `if confirm != "y"`
delete_metric_declined(confirm) == confirm # <<"y">>

StartDelete ==
    \E n \in Names :
        /\ Begin([name |-> "delete_metric", metric |-> n, category |-> "",
                  target |-> 0, metrics |-> <<>>], "dm_fetch_metrics")
        /\ hist' = BeginFetch(StartHist, "metrics", delete_metric_metric_filter(n))

\* one pass of fetch_all_pages(metrics_ds_id, Name equals name); after the last
\* page: exit(1) if nothing was found, else the second fetch_all_pages starts
DmFetchMetrics ==
    /\ pc = "dm_fetch_metrics"
    /\ UNCHANGED <<gw, gws, heat>>
    /\ \E o \in Outcomes :
        LET c == delete_metric_api_call(call, o) IN
        /\ call' = c
        /\ IF c.status # "returned" THEN Failed(c)
           ELSE LET kwargs == fetch_all_pages_kwargs("metrics",
                                  delete_metric_metric_filter(cmd.metric), cursor)
                    response == query(metricsDb, kwargs)
                    all == pages \o response.results
                IN /\ IF ~response.has_more
                      THEN /\ metric_pages' = all
                           /\ pages' = <<>>
                           /\ cursor' = None
                           /\ IF delete_metric_not_found(all)
                              THEN Finish("1") /\ hist' = NoteQuery(hist, kwargs, response)
                              ELSE /\ Goto("dm_fetch_tracker")
                                   /\ hist' = BeginFetch(NoteQuery(hist, kwargs, response), "tracker",
                                                  delete_metric_tracker_filter(cmd.metric))
                      ELSE /\ pages' = all
                           /\ cursor' = response.next_cursor
                           /\ hist' = NoteQuery(hist, kwargs, response)
                           /\ Goto("dm_fetch_metrics")
                           /\ UNCHANGED metric_pages
                   /\ UNCHANGED <<stores, existing, tracker_pages, needed, count,
                                  metrics, data, cmd, prev, faults, runs>>

\* one pass of fetch_all_pages(tracker_ds_id, Metric equals name)
DmFetchTracker ==
    /\ pc = "dm_fetch_tracker"
    /\ UNCHANGED <<gw, gws, heat>>
    /\ \E o \in Outcomes :
        LET c == delete_metric_api_call(call, o) IN
        /\ call' = c
        /\ IF c.status # "returned" THEN Failed(c)
           ELSE LET kwargs == fetch_all_pages_kwargs("tracker",
                                  delete_metric_tracker_filter(cmd.metric), cursor)
                    response == query(trackerDb, kwargs)
                    all == pages \o response.results
                IN /\ hist' = NoteQuery(hist, kwargs, response)
                   /\ IF ~response.has_more
                      THEN /\ tracker_pages' = all
                           /\ pages' = <<>>
                           /\ cursor' = None
                           /\ Goto("dm_confirm")
                      ELSE /\ pages' = all
                           /\ cursor' = response.next_cursor
                           /\ Goto("dm_fetch_tracker")
                           /\ UNCHANGED tracker_pages
                   /\ UNCHANGED <<stores, existing, metric_pages, needed, count,
                                  metrics, data, cmd, prev, faults, runs>>

\* confirm = input(...).strip().lower(); exit(0) unless it is "y"
DmConfirm ==
    /\ pc = "dm_confirm"
    /\ UNCHANGED <<gw, gws, heat>>
    /\ \E answer \in Answers :
        LET confirm == Lower(Strip(answer)) IN
        /\ hist' = [hist EXCEPT !.answer = <<answer>>]
        /\ count' = 0
        /\ IF delete_metric_declined(confirm) THEN Finish("0") ELSE Goto("dm_archive_metrics")
        /\ UNCHANGED <<stores, call, cursor, existing, pages, metric_pages, tracker_pages,
                       needed, metrics, data, cmd, prev, faults, runs>>

\* one iteration of `for page in metric_pages`
DmArchiveMetric ==
    /\ pc = "dm_archive_metrics"
    /\ UNCHANGED <<gw, gws, heat>>
    /\ \E o \in Outcomes :
        LET c == delete_metric_api_call(call, o) IN
        /\ call' = c
        /\ IF c.status # "returned" THEN Failed(c)
           ELSE LET page == metric_pages[count + 1] IN
                /\ metricsDb' = archive(metricsDb, page.id)
                /\ hist' = NoteArchive(hist, "metrics", page.id)
                /\ count' = count + 1
                /\ IF count + 1 < Len(metric_pages) THEN Goto("dm_archive_metrics")
                   ELSE IF tracker_pages # <<>> THEN Goto("dm_archive_tracker")
                   ELSE Finish("0")
                /\ UNCHANGED <<trackerDb, cursor, existing, pages, metric_pages, tracker_pages,
                               needed, metrics, data, cmd, prev, faults, runs>>

\* one iteration of `for page in tracker_pages`
DmArchiveTracker ==
    /\ pc = "dm_archive_tracker"
    /\ UNCHANGED <<gw, gws, heat>>
    /\ \E o \in Outcomes :
        LET c == delete_metric_api_call(call, o) IN
        /\ call' = c
        /\ IF c.status # "returned" THEN Failed(c)
           ELSE LET page == tracker_pages[count - Len(metric_pages) + 1] IN
                /\ trackerDb' = archive(trackerDb, page.id)
                /\ hist' = NoteArchive(hist, "tracker", page.id)
                /\ count' = count + 1
                /\ IF count + 1 < Len(metric_pages) + Len(tracker_pages)
                   THEN Goto("dm_archive_tracker") ELSE Finish("0")
                /\ UNCHANGED <<metricsDb, cursor, existing, pages, metric_pages, tracker_pages,
                               needed, metrics, data, cmd, prev, faults, runs>>

-----------------------------------------------------------------------------
(* generate_heatmap.py: fetch_all_tracker_entries() *)

StartHeatmap ==
    /\ Begin([name |-> "generate_heatmap", metric |-> "", category |-> "",
              target |-> 0, metrics |-> <<>>], "hm_fetch")
    /\ hist' = BeginFetch(StartHist, "tracker", NoFilter)

\* arguments of one query of the fetch loop
fetch_all_tracker_entries_kwargs(start_cursor) ==
    LET kwargs == [data_source_id |-> "tracker", filter |-> NoFilter, page_size |-> page_size]
    IN IF start_cursor # None THEN [start_cursor |-> start_cursor] @@ kwargs ELSE kwargs

\* props.get(key, {}).get("checkbox", False)
Checkbox(props, key) == IF key \in DOMAIN props THEN props[key] ELSE FALSE

\* d.isoformat(), for years of four digits
IsoFormat(n) == Digits(YearOf(n)) \o <<"-">> \o Pad2(MonthOf(n)) \o <<"-">> \o Pad2(DayOf(n))

\* round(num / den) to an integer, ties to even, for num >= 0 and den > 0
RoundDiv(num, den) ==
    LET q == num \div den
        r == num % den
    IN IF 2 * r < den THEN q
       ELSE IF 2 * r > den THEN q + 1
       ELSE IF q % 2 = 0 THEN q ELSE q + 1

\* Scores are kept in tenths: 333 stands for 33.3.  The float completed / total
\* * 100 is taken as the exact quotient, which round(_, 1) rounds half-even.

\* week_day_map: week_key -> days, a later week of the same key replacing an earlier
week_day_map(weeks) ==
    [key \in {weeks[i].week_key : i \in 1..Len(weeks)} |->
        weeks[CHOOSE i \in 1..Len(weeks) :
                /\ weeks[i].week_key = key
                /\ \A j \in (i + 1)..Len(weeks) : weeks[j].week_key # key].days]

\* compute_daily_scores_score without the rounding to one decimal (whole percents)
compute_daily_scores_score_whole(completed, total) ==
    IF total > 0 THEN RoundDiv(completed * 100, total) * 10 ELSE 0

\* round(completed / total * 100, 1) if total > 0 else 0
compute_daily_scores_score(completed, total) ==
    IF total > 0 THEN RoundDiv(completed * 1000, total) ELSE 0

\* compute_daily_scores(pages, weeks): date_str -> score
compute_daily_scores(ps, weeks) ==
    LET map == week_day_map(weeks)
        \* the pages the loop does not `continue` past
        counted == {i \in 1..Len(ps) :
                      /\ ps[i].properties.Week # None
                      /\ ps[i].properties.Week[1] \in DOMAIN map}
        \* d = days[day_name]
        d(i, day_name) == map[ps[i].properties.Week[1]][day_name]
        \* the (page, day name, date_str) that reach `daily_total[date_str] += 1`
        entries == {<<e[1], e[2], IsoFormat(d(e[1], e[2]))>> :
                       e \in {x \in counted \X DayNameSet : YearOf(d(x[1], x[2])) = YEAR}}
        daily_total(str) == Cardinality({e \in entries : e[3] = str})
        daily_completed(str) ==
            Cardinality({e \in entries : e[3] = str /\ Checkbox(ps[e[1]].properties, e[2])})
    IN [str \in {e[3] : e \in entries} |->
           compute_daily_scores_score(daily_completed(str), daily_total(str))]

\* generate_html: isoformat of every day from jan1 to dec31
YearDates ==
    LET jan1 == Date(YEAR, 1, 1)
        dec31 == Date(YEAR, 12, 31)
    IN [k \in 1..(dec31 - jan1 + 1) |-> IsoFormat(jan1 + k - 1)]

\* generate_html: the score of every day of days_data, scores.get(date, 0)
generate_html_day_scores(sc) ==
    [k \in 1..Len(YearDates) |-> IF YearDates[k] \in DOMAIN sc THEN sc[YearDates[k]] ELSE 0]

\* sum(dd["score"] for dd in days_data)
RECURSIVE SumRange(_, _, _)
SumRange(q, lo, hi) ==
    IF lo > hi THEN 0
    ELSE IF lo = hi THEN q[lo]
    ELSE LET mid == (lo + hi) \div 2 IN SumRange(q, lo, mid) + SumRange(q, mid + 1, hi)

SumSeq(q) == SumRange(q, 1, Len(q))

\* generate_html_avg_score dividing by the number of tracked days
generate_html_avg_score_tracked(day_scores, sc) ==
    RoundDiv(SumSeq(day_scores), IF Cardinality(DOMAIN sc) > 1 THEN Cardinality(DOMAIN sc) ELSE 1)

\* avg_score = round(sum(...) / max(total_days, 1), 1)
generate_html_avg_score(day_scores, sc) ==
    LET total_days == Len(day_scores)
    IN RoundDiv(SumSeq(day_scores), IF total_days > 1 THEN total_days ELSE 1)

\* generate_html: summary stats
generate_html_stats(sc) ==
    LET day_scores == generate_html_day_scores(sc)
    IN [total_days   |-> Len(day_scores),
        active_days  |-> Cardinality({k \in 1..Len(day_scores) : day_scores[k] > 0}),
        avg_score    |-> generate_html_avg_score(day_scores, sc),
        perfect_days |-> Cardinality({k \in 1..Len(day_scores) : day_scores[k] >= 1000})]

\* the values date.today() may return: before YEAR, its first day, days of its
\* first and second week, after YEAR
Todays == {Date(YEAR - 1, 12, 31), Date(YEAR, 1, 1), Date(YEAR, 1, 7), Date(YEAR, 1, 11),
           Date(YEAR + 1, 1, 5)}

\* the `while d >= jan1` loop, d being the k-th day of the year
RECURSIVE generate_html_streak_from(_, _)
generate_html_streak_from(day_scores, k) ==
    IF k >= 1 /\ day_scores[k] > 0
    THEN 1 + generate_html_streak_from(day_scores, k - 1)
    ELSE 0

\* generate_html_current_streak that walks back from dec31 whatever today is
generate_html_current_streak_from_dec31(sc, day) ==
    generate_html_streak_from(generate_html_day_scores(sc), Date(YEAR, 12, 31) - Date(YEAR, 1, 1) + 1)

\* generate_html: streak, with d = min(today, dec31)
generate_html_current_streak(sc, day) ==
    generate_html_streak_from(generate_html_day_scores(sc),
                              Min(day, Date(YEAR, 12, 31)) - Date(YEAR, 1, 1) + 1)

\* generate_html_streak_step that records a run only when it ends
generate_html_streak_step_at_end(st, score) ==
    IF score > 0
    THEN [current |-> st.current + 1, longest_streak |-> st.longest_streak]
    ELSE [current |-> 0,
          longest_streak |-> IF st.current > st.longest_streak THEN st.current
                             ELSE st.longest_streak]

\* the body of the `while d <= min(today, dec31)` loop for a day with this score
generate_html_streak_step(st, score) ==
    IF score > 0
    THEN [current |-> st.current + 1,
          longest_streak |-> IF st.current + 1 > st.longest_streak THEN st.current + 1
                             ELSE st.longest_streak]
    ELSE [current |-> 0, longest_streak |-> st.longest_streak]

\* the loop over the days lo..hi of the year, in order: the first half, then the
\* second half from where the first ended (the test on half only makes the first
\* half be evaluated before the second)
RECURSIVE generate_html_streak_loop(_, _, _, _)
generate_html_streak_loop(st, day_scores, lo, hi) ==
    IF lo > hi THEN st
    ELSE IF lo = hi THEN generate_html_streak_step(st, day_scores[lo])
    ELSE LET mid == (lo + hi) \div 2
             half == generate_html_streak_loop(st, day_scores, lo, mid)
         IN IF half.current >= 0
            THEN generate_html_streak_loop(half, day_scores, mid + 1, hi)
            ELSE half

\* generate_html_longest_streak that runs through dec31 whatever today is
generate_html_longest_streak_whole_year(sc, day) ==
    generate_html_streak_loop([current |-> 0, longest_streak |-> 0],
                              generate_html_day_scores(sc),
                              1, Date(YEAR, 12, 31) - Date(YEAR, 1, 1) + 1).longest_streak

\* generate_html: longest_streak, d from jan1 while d <= min(today, dec31)
generate_html_longest_streak(sc, day) ==
    generate_html_streak_loop([current |-> 0, longest_streak |-> 0],
                              generate_html_day_scores(sc),
                              1, Min(day, Date(YEAR, 12, 31)) - Date(YEAR, 1, 1) + 1).longest_streak

\* generate_html: today = date.today() and the two streaks
generate_html_streaks(sc, day) ==
    [today          |-> day,
     current_streak |-> generate_html_current_streak(sc, day),
     longest_streak |-> generate_html_longest_streak(sc, day)]

\* one pass of the fetch loop; after the last page, main returns if nothing was
\* fetched, else computes the scores and generates the page
HmFetch ==
    /\ pc = "hm_fetch"
    /\ UNCHANGED <<gw, gws>>
    /\ \E o \in Outcomes :
        LET c == generate_heatmap_api_call(call, o) IN
        /\ call' = c
        /\ IF c.status # "returned" THEN Failed(c) /\ UNCHANGED heat
           ELSE LET kwargs == fetch_all_tracker_entries_kwargs(cursor)
                    response == query(trackerDb, kwargs)
                    all == pages \o response.results
                IN
                /\ pages' = all
                /\ hist' = NoteQuery(hist, kwargs, response)
                /\ IF ~response.has_more
                   THEN /\ Finish("0")
                        /\ UNCHANGED cursor
                        /\ IF all = <<>> THEN UNCHANGED heat
                           ELSE LET sc == compute_daily_scores(all, HeatmapWeeks) IN
                                /\ scores' = sc
                                /\ stats' = generate_html_stats(sc)
                                /\ \E day \in Todays : streaks' = generate_html_streaks(sc, day)
                   ELSE /\ Goto("hm_fetch")
                        /\ cursor' = response.next_cursor
                        /\ UNCHANGED heat
                /\ UNCHANGED <<stores, existing, metric_pages, tracker_pages, needed, count,
                               metrics, data, cmd, prev, faults, runs>>

-----------------------------------------------------------------------------
(* generate_tracker.py: fetch_metrics() then fetch_tracker_data() *)

DAY_KEYS == <<"01", "02", "03", "04", "05", "06", "07", "08", "09", "10",
              "11", "12", "13", "14", "15", "16", "17", "18", "19", "20",
              "21", "22", "23", "24", "25", "26", "27", "28", "29", "30", "31">>

\* the active metrics of one response, in order
RECURSIVE fetch_metrics_rows(_)
fetch_metrics_rows(results) ==
    IF results = <<>> THEN <<>>
    ELSE LET props == Head(results).properties
             rest == fetch_metrics_rows(Tail(results))
         IN IF props.Name = <<>> THEN rest
            ELSE IF props.Active
                 THEN <<[name     |-> props.Name[1],
                         category |-> IF props.Category # None THEN props.Category[1]
                                      ELSE "Personal",
                         target   |-> props.Weekly_Target]>> \o rest
                 ELSE rest

\* the entries one response adds to data: the (month, metric) keys it opens and
\* the (month, metric, day) it marks checked
fetch_tracker_data_rows(results) ==
    LET usable == {i \in 1..Len(results) :
                     /\ results[i].properties.Metric # <<>>
                     /\ results[i].properties.Month # None}
    IN [keys    |-> {<<results[i].properties.Month[1], results[i].properties.Metric[1]>> :
                        i \in usable},
        checked |-> UNION {
            LET props == results[i].properties
                month_name == props.Month[1]
                num_days == DaysInMonth(YEAR, MonthIndex(month_name))
            IN {<<month_name, props.Metric[1], d>> :
                   d \in {x \in 1..num_days : Checkbox(props, DAY_KEYS[x])}}
            : i \in usable}]

\* arguments of one query of fetch_metrics / fetch_tracker_data
fetch_metrics_kwargs(start) ==
    LET kwargs == [data_source_id |-> "metrics", filter |-> NoFilter, page_size |-> page_size]
    IN IF start # None THEN [start_cursor |-> start] @@ kwargs ELSE kwargs

fetch_tracker_data_kwargs(start) ==
    LET kwargs == [data_source_id |-> "tracker", filter |-> NoFilter, page_size |-> page_size]
    IN IF start # None THEN [start_cursor |-> start] @@ kwargs ELSE kwargs

StartTracker ==
    /\ Begin([name |-> "generate_tracker", metric |-> "", category |-> "",
              target |-> 0, metrics |-> <<>>], "gt_fetch_metrics")
    /\ hist' = BeginFetch(StartHist, "metrics", NoFilter)

GtFetchMetrics ==
    /\ pc = "gt_fetch_metrics"
    /\ UNCHANGED <<gw, gws, heat>>
    /\ \E o \in Outcomes :
        LET c == generate_tracker_api_call(call, o) IN
        /\ call' = c
        /\ IF c.status # "returned" THEN Failed(c)
           ELSE LET kwargs == fetch_metrics_kwargs(cursor)
                    resp == query(metricsDb, kwargs)
                IN
                /\ metrics' = metrics \o fetch_metrics_rows(resp.results)
                /\ IF ~resp.has_more
                   THEN /\ cursor' = None
                        /\ hist' = BeginFetch(NoteQuery(hist, kwargs, resp), "tracker", NoFilter)
                        /\ Goto("gt_fetch_data")
                   ELSE /\ cursor' = resp.next_cursor
                        /\ hist' = NoteQuery(hist, kwargs, resp)
                        /\ Goto("gt_fetch_metrics")
                /\ UNCHANGED <<stores, existing, pages, metric_pages, tracker_pages, needed,
                               count, data, cmd, prev, faults, runs>>

GtFetchData ==
    /\ pc = "gt_fetch_data"
    /\ UNCHANGED <<gw, gws, heat>>
    /\ \E o \in Outcomes :
        LET c == generate_tracker_api_call(call, o) IN
        /\ call' = c
        /\ IF c.status # "returned" THEN Failed(c)
           ELSE LET kwargs == fetch_tracker_data_kwargs(cursor)
                    resp == query(trackerDb, kwargs)
                    rows == fetch_tracker_data_rows(resp.results)
                IN /\ data' = [keys |-> data.keys \cup rows.keys,
                               checked |-> data.checked \cup rows.checked]
                   /\ hist' = NoteQuery(hist, kwargs, resp)
                   /\ IF ~resp.has_more
                      THEN Finish("0") /\ UNCHANGED cursor
                      ELSE Goto("gt_fetch_data") /\ cursor' = resp.next_cursor
                   /\ UNCHANGED <<stores, existing, pages, metric_pages, tracker_pages, needed,
                                  count, metrics, cmd, prev, faults, runs>>

-----------------------------------------------------------------------------
(* Specification *)

Next ==
    \/ StartAddMetric \/ AmCheck \/ AmCreateMetric \/ AmFetch \/ AmCreate
    \/ StartPopulate \/ PtFetch \/ PtCreate
    \/ StartDelete \/ DmFetchMetrics \/ DmFetchTracker \/ DmConfirm
    \/ DmArchiveMetric \/ DmArchiveTracker
    \/ StartHeatmap \/ HmFetch
    \/ StartTracker \/ GtFetchMetrics \/ GtFetchData

Spec == Init /\ [][Next]_vars

-----------------------------------------------------------------------------
(* Sync runs against a store that may apply a create and still answer it     *)
(* with a transient failure (a 502 or 503 of a gateway in front of it).      *)

LostAckErrs == {S502, S503}

\* one invocation of the create of add_metric's loop: the store adds the page,
\* the invocation raises; api_call backs off and will invoke again, or re-raises
AmCreateLost ==
    /\ pc = "am_create"
    /\ UNCHANGED <<gw, gws, heat>>
    /\ faults < MaxFaults
    /\ \E e \in LostAckErrs :
        LET c == add_metric_api_call(call, Fail(e))
            week == needed[count + 1]
            properties == add_metric_tracker_properties(cmd.metric, cmd.category,
                                                        cmd.target, week)
        IN /\ call' = c
           /\ trackerDb' = create(trackerDb, properties)
           /\ faults' = faults + 1
           /\ IF c.status = "raised" THEN Finish("raised") ELSE UNCHANGED <<pc, exit>>
           /\ UNCHANGED <<metricsDb, locals, hist, cmd, prev, runs>>

\* the same for the create of populate_tracker's loop
PtCreateLost ==
    /\ pc = "pt_create"
    /\ UNCHANGED <<gw, gws, heat>>
    /\ faults < MaxFaults
    /\ \E e \in LostAckErrs :
        LET c == setup_api_call(call, Fail(e))
            entry == needed[count + 1]
            properties == populate_tracker_properties(entry.metric, entry.week)
        IN /\ call' = c
           /\ trackerDb' = create(trackerDb, properties)
           /\ faults' = faults + 1
           /\ IF c.status = "raised" THEN Finish("raised") ELSE UNCHANGED <<pc, exit>>
           /\ UNCHANGED <<metricsDb, locals, hist, cmd, prev, runs>>

NextLostAck ==
    \/ StartAddMetric \/ AmCheck \/ AmCreateMetric \/ AmFetch \/ AmCreate \/ AmCreateLost
    \/ StartPopulate \/ PtFetch \/ PtCreate \/ PtCreateLost

SpecLostAck == Init /\ [][NextLostAck]_vars

-----------------------------------------------------------------------------
(* The retrying client on its own: api_call of any of the five scripts       *)
(* around an arbitrary remote operation, with every pattern of outcomes.     *)

Scripts == {"setup", "add_metric", "delete_metric", "generate_heatmap", "generate_tracker"}

ProbeErrStrs == {S429, S502, S503,
                 <<"4", "0", "0">>,
                 <<"5", "0", "0">>,
                 <<"i", "d", "9", "5", "0", "2", "1">>,
                 <<"4", "2", "0", "9">>}

ProbeResults == {"A", "B"}

ProbeOutcomes ==
    {[ok |-> TRUE, err |-> None, result |-> r] : r \in ProbeResults}
    \cup {Fail(e) : e \in ProbeErrStrs}

ApiCallOf(script, c, o) ==
    CASE script = "setup" -> setup_api_call(c, o)
      [] script = "add_metric" -> add_metric_api_call(c, o)
      [] script = "delete_metric" -> delete_metric_api_call(c, o)
      [] script = "generate_heatmap" -> generate_heatmap_api_call(c, o)
      [] script = "generate_tracker" -> generate_tracker_api_call(c, o)

\* one invocation inside api_call(func): of a new logical call, or of the one
\* that is backing off
Probe ==
    /\ pc = "idle"
    /\ UNCHANGED <<gw, gws, heat>>
    /\ runs = 0
    /\ \E script \in Scripts, o \in ProbeOutcomes :
        /\ call.status = "retrying" => cmd.name = script
        /\ call' = ApiCallOf(script, call, o)
        /\ cmd' = [NoCmd EXCEPT !.name = script]
    /\ UNCHANGED <<stores, pc, exit, locals, hist, prev, faults, runs>>

NextApi == Probe

SpecApi == Init /\ [][NextApi]_vars

-----------------------------------------------------------------------------
(* The calendar bucketer on its own: get_weeks of any of the three scripts   *)
(* that define it, applied to any year of FirstYear..LastYear.               *)

Years == FirstYear..LastYear

WeekScripts == {"setup", "add_metric", "generate_heatmap"}

GetWeeksOf(script, year) ==
    CASE script = "setup" -> setup_get_weeks(year)
      [] script = "add_metric" -> add_metric_get_weeks(year)
      [] script = "generate_heatmap" -> generate_heatmap_get_weeks(year)

\* weeks = get_weeks(year), called once
GetWeeks ==
    /\ pc = "idle"
    /\ runs = 0
    /\ gw = NoWeeks
    /\ gws = NoAllWeeks
    /\ \E script \in WeekScripts, year \in Years :
        gw' = [script |-> script, year |-> year, weeks |-> GetWeeksOf(script, year)]
    /\ UNCHANGED <<stores, pc, cmd, exit, call, locals, hist, prev, faults, runs, gws, heat>>

\* each of the three scripts calls its get_weeks for the same year
GetWeeksAll ==
    /\ pc = "idle"
    /\ runs = 0
    /\ gw = NoWeeks
    /\ gws = NoAllWeeks
    /\ \E year \in Years :
        gws' = [year             |-> year,
                setup            |-> setup_get_weeks(year),
                add_metric       |-> add_metric_get_weeks(year),
                generate_heatmap |-> generate_heatmap_get_weeks(year)]
    /\ UNCHANGED <<stores, pc, cmd, exit, call, locals, hist, prev, faults, runs, gw, heat>>

NextWeeks == GetWeeks \/ GetWeeksAll

SpecWeeks == Init /\ [][NextWeeks]_vars

-----------------------------------------------------------------------------
(* The heatmap computation on its own: compute_daily_scores and the summary  *)
(* statistics of generate_html, applied to any list of up to MaxPages        *)
(* tracker pages with boxes checked.                                         *)

\* a tracker page of metric `name` for the week `key` (None: no Week select)
\* with the boxes of `checked` ticked
ScorePage(name, key, checked) ==
    [Metric        |-> <<name>>,
     Category      |-> <<"Health">>,
     Month         |-> <<"January">>,
     Week          |-> IF key = None THEN None ELSE <<key>>,
     Week_Dates    |-> <<>>,
     Mon |-> "Mon" \in checked, Tue |-> "Tue" \in checked, Wed |-> "Wed" \in checked,
     Thu |-> "Thu" \in checked, Fri |-> "Fri" \in checked, Sat |-> "Sat" \in checked,
     Sun |-> "Sun" \in checked,
     Weekly_Target |-> 5,
     Streak        |-> 0]

\* the first week (Mon..Wed before the year), a week inside the year, the last
\* week (Fri..Sun after the year), a key get_weeks does not produce, no Week
ScorePages ==
    {ScorePage("Exercise", <<"W", "0", "2">>, c) : c \in {{}, DayNameSet, {"Mon"}}}
    \cup {ScorePage("Journal", <<"W", "0", "1">>, {"Wed", "Thu"}),
          ScorePage("Exercise", <<"W", "5", "3">>, DayNameSet),
          ScorePage("Exercise", <<"W", "5", "4">>, DayNameSet),
          ScorePage("Journal", None, DayNameSet)}

\* lists of n pages of ScorePages, with ids 1..n
ScoreLists(n) == {[i \in 1..n |-> Page(i, f[i])] : f \in [1..n -> ScorePages]}

\* scores = compute_daily_scores(pages, weeks); generate_html(scores)
Score ==
    /\ pc = "idle"
    /\ runs = 0
    /\ pages = <<>>
    /\ UNCHANGED <<gw, gws>>
    /\ \E n \in 1..MaxPages : \E ps \in ScoreLists(n) :
        LET sc == compute_daily_scores(ps, HeatmapWeeks) IN
        /\ pages' = ps
        /\ scores' = sc
        /\ stats' = generate_html_stats(sc)
        /\ \E day \in Todays : streaks' = generate_html_streaks(sc, day)
    /\ UNCHANGED <<stores, pc, cmd, exit, call, cursor, existing, metric_pages, tracker_pages,
                   needed, count, metrics, data, hist, prev, faults, runs>>

NextScores == Score

SpecScores == Init /\ [][NextScores]_vars

-----------------------------------------------------------------------------
(* Properties *)

Live(db) == {i \in 1..Len(db) : ~db[i].archived}
Archived(db) == {i \in 1..Len(db) : db[i].archived}

IsPrefix(s, t) == Len(s) <= Len(t) /\ s = SubSeq(t, 1, Len(s))

SyncCommands == {"add_metric", "populate_tracker"}

\* un-archived tracker pages of metric `name` with week key `key`
RowsOf(name, key) ==
    {i \in Live(trackerDb) :
        /\ trackerDb[i].properties.Metric = <<name>>
        /\ trackerDb[i].properties.Week = <<key>>}

\* C1: at most one tracker record per (metric, week key) pair.  Stated over the
\* un-archived pages with a Week select; in behaviours of sync runs alone no
\* page is archived, so these are all the records with a bucket key.
C1_Uniqueness ==
    \A i, j \in Live(trackerDb) :
        ( /\ trackerDb[i].properties.Week # None
          /\ trackerDb[i].properties.Metric = trackerDb[j].properties.Metric
          /\ trackerDb[i].properties.Week = trackerDb[j].properties.Week ) => i = j

\* two sync runs in a row, both creating records, the second on a store that
\* was not empty, and no page archived
C1_Witness ==
    /\ cmd.name = "populate_tracker" /\ exit = "0"
    /\ prev.cmd.name = "add_metric" /\ prev.created > 0
    /\ hist.creates # <<>>
    /\ existing # {}
    /\ Archived(trackerDb) = {} /\ Archived(metricsDb) = {}

\* the running command repeats the populate_tracker call that just completed
C2_SecondRun ==
    /\ cmd.name = "populate_tracker"
    /\ prev.cmd = cmd
    /\ prev.exit = "0"

\* C2: the second of two populate_tracker runs with the same metrics and weeks
\* never reaches a create call and leaves the tracker collection as it found it.
C2_Idempotence ==
    C2_SecondRun =>
        /\ pc # "pt_create"
        /\ hist.creates = <<>>
        /\ trackerDb = hist.startTracker

C2_Witness ==
    /\ C2_SecondRun
    /\ prev.created > 0
    /\ pc = "idle" /\ exit = "0"

\* the (metric, week key) pairs a sync command is asked to provide
DesiredPairs ==
    IF cmd.name = "add_metric"
    THEN {<<cmd.metric, AddMetricWeeks[k].week_key>> : k \in 1..Len(AddMetricWeeks)}
    ELSE {<<cmd.metrics[m].name, SetupWeeks[k].week_key>> :
             m \in 1..Len(cmd.metrics), k \in 1..Len(SetupWeeks)}

\* the command that just ended re-invoked one that had aborted with a remote
\* error after creating some of its records, and did not itself die of one
C3_Resumed ==
    /\ cmd.name \in SyncCommands
    /\ prev.cmd = cmd
    /\ prev.exit = "raised" /\ prev.created > 0
    /\ pc = "idle" /\ exit \in {"0", "1"}

\* C3: re-invoking a sync command that aborted mid-way fills what is missing:
\* afterwards every desired (metric, week) pair has exactly one record.
C3_Resumable ==
    C3_Resumed => \A pair \in DesiredPairs : Cardinality(RowsOf(pair[1], pair[2])) = 1

\* C3 for populate_tracker alone
C3_ResumablePopulate ==
    (C3_Resumed /\ cmd.name = "populate_tracker") =>
        \A pair \in DesiredPairs : Cardinality(RowsOf(pair[1], pair[2])) = 1

\* a message is transient when it contains 429, 502 or 503
Transient(err) == Contains(err, S429) \/ Contains(err, S502) \/ Contains(err, S503)

InvokeAt(k) == call.log[k].ev = "invoke"
SleepAt(k) == call.log[k].ev = "sleep"
Invokes == {k \in 1..Len(call.log) : InvokeAt(k)}
FailedInvokes == {k \in Invokes : ~call.log[k].ok}

\* C4: a logical api_call invokes the wrapped operation at most 3 times; after
\* three transient failures the call has raised, and the failed third
\* invocation is its last event (no sleep, no fourth invocation).
C4_RetryBound ==
    /\ Cardinality(Invokes) <= 3
    /\ ( /\ Cardinality(FailedInvokes) = 3
         /\ \A k \in FailedInvokes : Transient(call.log[k].err) )
       => /\ call.status = "raised"
          /\ InvokeAt(Len(call.log))

C4_Witness ==
    /\ call.status = "raised"
    /\ Cardinality(FailedInvokes) = 3
    /\ \A k \in FailedInvokes : Transient(call.log[k].err)
    /\ cmd.name = "setup"

\* C5: a transient failure of invocation i < 2 is followed by a sleep of exactly
\* 2^(i+1) seconds and then by invocation i+1; invocations are numbered from 0
\* without gaps; a call that returns, returns the result of its last invocation.
\* So 429, 429, success gives sleeps of 2 s then 4 s and the third result.
C5_Backoff ==
    /\ \A k \in FailedInvokes :
         (Transient(call.log[k].err) /\ call.log[k].attempt < 2) =>
            /\ k < Len(call.log)
            /\ SleepAt(k + 1)
            /\ call.log[k + 1].ms = (2 ^ (call.log[k].attempt + 1)) * 1000
            /\ (k + 2 <= Len(call.log)) =>
                  (InvokeAt(k + 2) /\ call.log[k + 2].attempt = call.log[k].attempt + 1)
    /\ (call.log # <<>>) => (InvokeAt(1) /\ call.log[1].attempt = 0)
    /\ (call.status = "returned") =>
          \E k \in Invokes : /\ \A j \in Invokes : j <= k
                             /\ call.log[k].ok
                             /\ call.result = call.log[k].result

C5_Witness ==
    /\ call.status = "returned"
    /\ Len(call.log) = 6
    /\ call.log[1].err = S429 /\ call.log[2].ms = 2000
    /\ call.log[3].err = S429 /\ call.log[4].ms = 4000
    /\ call.log[5].ok /\ call.result = "B"
    /\ cmd.name = "generate_tracker"

\* C6: an invocation that fails with a non-transient message is the last event
\* of its call, on whichever attempt it occurs, and the call has raised.
C6_NonTransient ==
    \A k \in FailedInvokes :
        ~Transient(call.log[k].err) =>
            /\ k = Len(call.log)
            /\ call.status = "raised"

C6_Witness ==
    /\ call.status = "raised"
    /\ Len(call.log) = 3
    /\ Transient(call.log[1].err)
    /\ call.log[3].err = <<"4", "2", "0", "9">>
    /\ cmd.name = "delete_metric"

\* C7: a call that returns ends with the successful invocation followed by one
\* 0.4 s sleep; a sleep follows a successful invocation nowhere else, and no
\* 0.4 s sleep follows a failed invocation or ends a call that raised.
C7_Pacing ==
    LET n == Len(call.log) IN
    /\ (call.status = "returned") =>
          /\ n >= 2
          /\ InvokeAt(n - 1) /\ call.log[n - 1].ok
          /\ SleepAt(n) /\ call.log[n].ms = 400
          /\ Cardinality({k \in 1..n : SleepAt(k) /\ call.log[k].ms = 400}) = 1
    /\ \A k \in 1..n :
          (InvokeAt(k) /\ call.log[k].ok) => (k = n - 1 /\ call.status = "returned")
    /\ \A k \in 2..n :
          (SleepAt(k) /\ ~call.log[k - 1].ok) => call.log[k].ms # 400
    /\ (call.status = "raised") => InvokeAt(n)

C7_Witness ==
    /\ call.status = "returned"
    /\ Cardinality(FailedInvokes) = 2
    /\ call.log[Len(call.log)].ms = 400
    /\ cmd.name = "setup"

\* the collection a fetch of the running command read, as it was when read
StartDb(ds) == IF ds = "metrics" THEN hist.startMetrics ELSE hist.startTracker

PerPage == Min(100, PageLen)

\* the cursors a complete fetch of n records asks for, in order
ExpectedCursors(n) ==
    LET np == IF n = 0 THEN 1 ELSE (n + PerPage - 1) \div PerPage
    IN [k \in 1..np |-> IF k = 1 THEN None ELSE <<(k - 1) * PerPage>>]

FetchInOrder(f) ==
    LET all == Visible(StartDb(f.ds), f.filter)
        expected == ExpectedCursors(Len(all))
    IN /\ IsPrefix(f.queried, expected)
       /\ f.done <=> (f.queried = expected)
       /\ f.got = Ids(SubSeq(all, 1, Min(Len(all), Len(f.queried) * PerPage)))

FetchDone(k) == Len(hist.fetches) >= k /\ hist.fetches[k].done

\* what the fetch loops accumulate, once they are done
FetchResults ==
    /\ (cmd.name = "delete_metric" /\ FetchDone(1)) =>
          metric_pages = Visible(hist.startMetrics, hist.fetches[1].filter)
    /\ (cmd.name = "delete_metric" /\ FetchDone(2)) =>
          tracker_pages = Visible(hist.startTracker, hist.fetches[2].filter)
    /\ (cmd.name = "generate_heatmap" /\ FetchDone(1)) =>
          pages = Visible(hist.startTracker, NoFilter)
    /\ (cmd.name = "add_metric" /\ FetchDone(1)) =>
          existing = {p.properties.Week[1] :
                        p \in {q \in Range(Visible(hist.startTracker, hist.fetches[1].filter)) :
                                  q.properties.Week # None}}
    /\ (cmd.name = "populate_tracker" /\ FetchDone(1)) =>
          existing = {<<p.properties.Metric[1], p.properties.Week[1]>> :
                        p \in {q \in Range(Visible(hist.startTracker, NoFilter)) :
                                  q.properties.Metric # <<>> /\ q.properties.Week # None}}
    /\ (cmd.name = "generate_tracker" /\ FetchDone(1)) =>
          metrics = fetch_metrics_rows(Visible(hist.startMetrics, NoFilter))
    /\ (cmd.name = "generate_tracker" /\ FetchDone(2)) =>
          data = fetch_tracker_data_rows(Visible(hist.startTracker, NoFilter))

\* C8: every fetch loop asks for the pages once each in cursor order, stops
\* after the first page without has_more, and accumulates exactly the records
\* of the collection that match; an empty collection takes one query.
C8_Pagination ==
    /\ \A k \in 1..Len(hist.fetches) : FetchInOrder(hist.fetches[k])
    /\ FetchResults

\* generate_tracker read an empty metrics collection in one query and a
\* tracker collection of several pages
C8_Witness ==
    /\ cmd.name = "generate_tracker" /\ exit = "0"
    /\ hist.fetches[1].queried = <<None>> /\ hist.fetches[1].got = <<>>
    /\ Len(hist.fetches[2].queried) >= 2
    /\ Len(hist.fetches[2].got) > PerPage

\* the tracker pages the running sync command fetched
FetchedRows ==
    IF hist.fetches = <<>> THEN {}
    ELSE {hist.startTracker[id] : id \in Range(hist.fetches[Len(hist.fetches)].got)}

\* week keys among the fetched pages of metric `name` that carry a Week select
FetchedKeys(name) ==
    {p.properties.Week[1] :
        p \in {q \in FetchedRows : q.properties.Week # None /\ q.properties.Metric = <<name>>}}

\* the buckets of `weeks` missing for `name`, in the order of `weeks`
RECURSIVE MissingFor(_, _)
MissingFor(name, weeks) ==
    IF weeks = <<>> THEN <<>>
    ELSE (IF Head(weeks).week_key \in FetchedKeys(name) THEN <<>>
          ELSE <<<<name, Head(weeks).week_key>>>>)
         \o MissingFor(name, Tail(weeks))

RECURSIVE MissingForAll(_, _)
MissingForAll(ms, weeks) ==
    IF ms = <<>> THEN <<>>
    ELSE MissingFor(Head(ms).name, weeks) \o MissingForAll(Tail(ms), weeks)

ExpectedCreates ==
    IF cmd.name = "add_metric" THEN MissingFor(cmd.metric, AddMetricWeeks)
    ELSE MissingForAll(cmd.metrics, SetupWeeks)

CreatedPairs ==
    [k \in 1..Len(hist.creates) |-> <<hist.creates[k].Metric[1], hist.creates[k].Week[1]>>]

\* C9: a sync run creates, in bucket-list order, exactly the buckets whose key
\* is not carried by a fetched record with a Week select: nothing before the
\* fetch is complete, a prefix of that list while it runs or if it aborts, all
\* of it when it completes.  Fetched records without a Week select are ignored.
C9_CreateMissing ==
    (cmd.name \in SyncCommands) =>
        /\ ~FetchDone(1) => hist.creates = <<>>
        /\ FetchDone(1) =>
              /\ IsPrefix(CreatedPairs, ExpectedCreates)
              /\ (pc = "idle" /\ exit = "0") => CreatedPairs = ExpectedCreates
              /\ (pc \in {"am_create", "pt_create"}) => Len(CreatedPairs) < Len(ExpectedCreates)

\* a completed run that fetched a row without Week and a row with a key for the
\* same metric, and created the bucket that was missing
C9_Witness ==
    /\ cmd.name \in SyncCommands
    /\ pc = "idle" /\ exit = "0"
    /\ hist.creates # <<>>
    /\ \E p, q \in FetchedRows :
          /\ p.properties.Week = None
          /\ q.properties.Week # None
          /\ p.properties.Metric = q.properties.Metric
          /\ p.properties.Metric = hist.creates[1].Metric
    /\ Len(hist.creates) < Cardinality(DesiredPairs)

\* C10: at most one un-archived metric page per name.
C10_MetricUnique ==
    \A i, j \in Live(metricsDb) :
        metricsDb[i].properties.Name = metricsDb[j].properties.Name => i = j

\* a metric was added again after its earlier page had been archived
C10_Witness ==
    /\ cmd.name = "add_metric" /\ exit = "0"
    /\ \E i \in Archived(metricsDb) : metricsDb[i].properties.Name = <<cmd.metric>>
    /\ \E j \in Live(metricsDb) : metricsDb[j].properties.Name = <<cmd.metric>>

-----------------------------------------------------------------------------
(* Commands that refuse, decline or abort *)

\* the collections as the running command found them, with the pages whose ids
\* are in `ids` archived
ArchivedIn(db, ids) ==
    [i \in 1..Len(db) |-> IF i \in ids THEN [db[i] EXCEPT !.archived = TRUE] ELSE db[i]]

StoresUntouched == metricsDb = hist.startMetrics /\ trackerDb = hist.startTracker

\* un-archived metric pages named cmd.metric when the running command started
NamedMetrics == Visible(hist.startMetrics, [property |-> "Name", equals |-> cmd.metric])

\* un-archived tracker pages of cmd.metric when the running command started
NamedRows == Visible(hist.startTracker, [property |-> "Metric", equals |-> cmd.metric])

\* C11: add_metric NAME with a Metric record named NAME in the store issues no
\* create call (neither the metric page nor a tracker page), leaves both stores
\* as they were and ends with a non-zero status: 1 once the existence query has
\* returned, the exception when that query itself fails.  It exits 1 in no
\* other case.
C11_DuplicateExit ==
    (cmd.name = "add_metric") =>
        /\ (NamedMetrics # <<>>) =>
              /\ pc \in {"am_check", "idle"}
              /\ hist.creates = <<>>
              /\ StoresUntouched
              /\ (pc = "idle") => exit \in {"1", "raised"}
              /\ (pc = "idle" /\ call.status = "returned") => exit = "1"
        /\ (exit = "1") => (NamedMetrics # <<>> /\ pc = "idle")

\* the same metric is added a second time, after the first run completed and
\* created its records
C11_Witness ==
    /\ cmd.name = "add_metric" /\ pc = "idle" /\ exit = "1"
    /\ prev.cmd = cmd /\ prev.exit = "0" /\ prev.created > 0
    /\ trackerDb # <<>>

\* the answer typed at the prompt, trimmed and lower-cased, is not "y"
C12_Declined ==
    /\ cmd.name = "delete_metric"
    /\ hist.answer # None
    /\ Lower(Strip(hist.answer[1])) # <<"y">>

\* C12: a declined delete_metric issues no archive call, leaves every archived
\* flag as it was and exits 0; and in every run the first archive call comes
\* after both fetches are complete and the prompt has been answered.
C12_DeclinedDeletion ==
    /\ C12_Declined =>
          /\ hist.archives = <<>>
          /\ StoresUntouched
          /\ pc = "idle" /\ exit = "0"
    /\ (cmd.name = "delete_metric"
        /\ (hist.archives # <<>> \/ pc \in {"dm_archive_metrics", "dm_archive_tracker"})) =>
          /\ FetchDone(1) /\ FetchDone(2)
          /\ hist.answer # None

\* "yes" was typed for a metric that has a metric page and tracker pages
C12_Witness ==
    /\ C12_Declined
    /\ hist.answer = <<<<"y", "e", "s">>>>
    /\ metric_pages # <<>> /\ tracker_pages # <<>>
    /\ pc = "idle"

\* the delete_metric run was confirmed and completed
C13_Confirmed ==
    /\ cmd.name = "delete_metric"
    /\ hist.answer # None
    /\ Lower(Strip(hist.answer[1])) = <<"y">>
    /\ pc = "idle" /\ exit = "0"

\* C13: a confirmed delete_metric NAME that completes has issued one archive
\* call per Metric record named NAME and per TrackerRecord of NAME, in that
\* order and no other; those pages are archived and every other page is as it
\* was.  The name being unique, that makes 1 + N archive calls.
C13_ConfirmedDeletion ==
    C13_Confirmed =>
        LET ms == Ids(NamedMetrics)
            ts == Ids(NamedRows)
        IN /\ hist.archives = [k \in 1..Len(ms) |-> <<"metrics", ms[k]>>]
                              \o [k \in 1..Len(ts) |-> <<"tracker", ts[k]>>]
           /\ Len(ms) = 1
           /\ Len(hist.archives) = 1 + Len(ts)
           /\ hist.creates = <<>>
           /\ metricsDb = ArchivedIn(hist.startMetrics, Range(ms))
           /\ trackerDb = ArchivedIn(hist.startTracker, Range(ts))

\* several tracker pages were archived and a page of another metric is untouched
C13_Witness ==
    /\ C13_Confirmed
    /\ Len(hist.archives) >= 3
    /\ \E i \in Live(trackerDb) : trackerDb[i].properties.Metric # <<cmd.metric>>
    /\ hist.answer = <<<<" ", "Y", " ">>>>

\* C14: delete_metric NAME with no Metric record named NAME never prompts and
\* never archives, whatever tracker pages of NAME exist; it ends with status 1
\* once the fetch has returned, with the exception when the fetch fails.  It
\* exits 1 in no other case.
C14_UnknownMetric ==
    (cmd.name = "delete_metric") =>
        /\ (NamedMetrics = <<>>) =>
              /\ pc \in {"dm_fetch_metrics", "idle"}
              /\ hist.answer = None
              /\ hist.archives = <<>>
              /\ Len(hist.fetches) = 1
              /\ StoresUntouched
              /\ (pc = "idle") => exit \in {"1", "raised"}
              /\ (pc = "idle" /\ call.status = "returned") => exit = "1"
        /\ (exit = "1") => (NamedMetrics = <<>> /\ pc = "idle")

\* the metric is unknown but tracker pages of that name exist
C14_Witness ==
    /\ cmd.name = "delete_metric" /\ pc = "idle" /\ exit = "1"
    /\ NamedRows # <<>>

\* the positions at which a command issues its first remote call
FirstLabels == {"am_check", "pt_fetch", "dm_fetch_metrics", "hm_fetch", "gt_fetch_metrics"}

\* the stores are what the running command found plus what it created and
\* archived so far (the metric page of add_metric is created before its fetch)
EffectsKept ==
    LET newMetrics == IF cmd.name = "add_metric" /\ hist.fetches # <<>>
                      THEN <<Page(Len(hist.startMetrics) + 1,
                                  add_metric_metric_properties(cmd.metric, cmd.category, cmd.target))>>
                      ELSE <<>>
        newRows == [k \in 1..Len(hist.creates) |->
                      Page(Len(hist.startTracker) + k, hist.creates[k])]
        gone(ds) == {a[2] : a \in {b \in Range(hist.archives) : b[1] = ds}}
    IN /\ metricsDb = ArchivedIn(hist.startMetrics, gone("metrics")) \o newMetrics
       /\ trackerDb = ArchivedIn(hist.startTracker, gone("tracker")) \o newRows

-----------------------------------------------------------------------------
(* The calendar bucketer *)

GwJan1 == Date(gw.year, 1, 1)
GwDec31 == Date(gw.year, 12, 31)

\* the member days of the i-th week of the list get_weeks returned
GwMembers(i) == {gw.weeks[i].days[name] : name \in DayNameSet}

\* C16: the list get_weeks(year) returns starts with the week of the Monday on
\* or before Jan 1, goes on in steps of exactly 7 days and ends with the week
\* of the last Monday not after Dec 31; the member days of a week are its
\* Monday and the six days after it, named Mon..Sun in that order; every day
\* of the year is a member day of exactly one week, and only the first and
\* the last week have member days outside the year.
C16_BucketCoverage ==
    (gw.script \in {"setup", "generate_heatmap"}) =>
        LET weeks == gw.weeks
            n == Len(weeks)
        IN /\ n >= 1
           /\ Weekday(weeks[1].monday) = 0
           /\ weeks[1].monday <= GwJan1 /\ GwJan1 < weeks[1].monday + 7
           /\ \A i \in 1..(n - 1) : weeks[i + 1].monday = weeks[i].monday + 7
           /\ weeks[n].monday <= GwDec31 /\ GwDec31 < weeks[n].monday + 7
           /\ \A i \in 1..n : \A k \in 1..7 : weeks[i].days[DAY_NAMES[k]] = weeks[i].monday + k - 1
           /\ \A d \in GwJan1..GwDec31 : Cardinality({i \in 1..n : d \in GwMembers(i)}) = 1
           /\ \A i \in 2..(n - 1) : GwMembers(i) \subseteq GwJan1..GwDec31

\* 2026 starts on a Thursday: 53 weeks, the first from Dec 29, 2025, the last
\* reaching into 2027
C16_Witness ==
    /\ gw.script = "generate_heatmap" /\ gw.year = 2026
    /\ GwJan1 = 739617
    /\ Len(gw.weeks) = 53
    /\ gw.weeks[1].monday = GwJan1 - 3
    /\ gw.weeks[1].days["Thu"] = GwJan1
    /\ gw.weeks[53].days["Sun"] = GwDec31 + 3

\* C17: the i-th week of the list has the key "W" followed by the two decimal
\* digits of i, so the keys of one year are pairwise distinct and, read as
\* text, strictly increasing along the list (that is, with the Monday).
C17_WeekKeys ==
    (gw.script \in WeekScripts) =>
        LET weeks == gw.weeks
            n == Len(weeks)
            digit(ch) == (CHOOSE k \in 1..10 : DIGITS[k] = ch) - 1
            less(a, b) == \/ digit(a[2]) < digit(b[2])
                          \/ digit(a[2]) = digit(b[2]) /\ digit(a[3]) < digit(b[3])
        IN /\ \A i \in 1..n :
                weeks[i].week_key = <<"W", DIGITS[(i \div 10) + 1], DIGITS[(i % 10) + 1]>>
           /\ \A i, j \in 1..n : (i < j) =>
                /\ weeks[i].week_key # weeks[j].week_key
                /\ less(weeks[i].week_key, weeks[j].week_key)

\* a year of 53 weeks listed by add_metric: W09 is followed by W10, W53 is last
C17_Witness ==
    /\ gw.script = "add_metric"
    /\ Len(gw.weeks) = 53
    /\ gw.weeks[9].week_key = <<"W", "0", "9">>
    /\ gw.weeks[10].week_key = <<"W", "1", "0">>
    /\ gw.weeks[53].week_key = <<"W", "5", "3">>

\* the Thursday of the i-th week of gw.year
GwThursday(i) == (GwJan1 - Weekday(GwJan1)) + 7 * (i - 1) + 3

\* C18: the owning month of every week is the month of its Thursday when the
\* Thursday lies in the year, January when it lies before, December when it
\* lies after.
C18_OwningMonth ==
    (gw.script \in {"setup", "add_metric"}) =>
        \A i \in 1..Len(gw.weeks) :
            LET thursday == GwThursday(i)
                owner == IF thursday < GwJan1 THEN 1
                         ELSE IF thursday > GwDec31 THEN 12
                         ELSE MonthOf(thursday)
            IN /\ gw.weeks[i].month_name = MONTHS[owner]
               /\ (gw.script = "setup") =>
                     /\ gw.weeks[i].month_num = owner
                     /\ gw.weeks[i].monday + 3 = thursday

\* a year whose first Thursday lies before it and whose last Thursday lies
\* after it, with a week in between owned by the month its Monday is not in
C18_Witness ==
    /\ gw.script = "add_metric"
    /\ GwThursday(1) < GwJan1
    /\ GwThursday(Len(gw.weeks)) > GwDec31
    /\ gw.weeks[1].month_name = "January"
    /\ gw.weeks[Len(gw.weeks)].month_name = "December"
    /\ \E i \in 2..(Len(gw.weeks) - 1) :
          MONTHS[MonthOf(GwThursday(i) - 3)] # gw.weeks[i].month_name

-----------------------------------------------------------------------------
(* The heatmap *)

\* main has computed the scores of the pages it fetched
ScoresReady == pc = "idle" /\ pages # <<>> /\ exit \in {"none", "0"}

YearJan1 == Date(YEAR, 1, 1)
YearDec31 == Date(YEAR, 12, 31)

\* the position in HeatmapWeeks of the week that contains each day of YEAR
WeekOfDay ==
    [k \in 1..(YearDec31 - YearJan1 + 1) |->
        CHOOSE i \in 1..Len(HeatmapWeeks) :
            /\ HeatmapWeeks[i].monday <= YearJan1 + k - 1
            /\ YearJan1 + k - 1 <= HeatmapWeeks[i].monday + 6]

\* the fetched pages whose Week key is the key of the week holding the k-th day of YEAR
PagesOn(k) ==
    {i \in 1..Len(pages) : pages[i].properties.Week = <<HeatmapWeeks[WeekOfDay[k]].week_key>>}

\* those of them whose box for that day's weekday is ticked
CheckedOn(k) ==
    {i \in PagesOn(k) : pages[i].properties[DAY_NAMES[Weekday(YearJan1 + k - 1) + 1]]}

Abs(x) == IF x < 0 THEN -x ELSE x

\* s tenths is num/den*100 rounded to one decimal
IsPercentTenths(s, num, den) == 2 * Abs(s * den - 1000 * num) <= den

\* C19: the score map has an entry for a date exactly when the date is a day of
\* YEAR and some fetched page carries the key of the week that holds it; the
\* entry is completed/total*100 rounded to one decimal, total counting those
\* pages and completed those with the box of that weekday ticked.  So a day
\* without such a page is absent, 0 of n scores 0.0 and n of n scores 100.0.
C19_DailyScores ==
    ScoresReady =>
        /\ DOMAIN scores \subseteq Range(YearDates)
        /\ \A k \in 1..Len(YearDates) :
              LET total == Cardinality(PagesOn(k))
                  completed == Cardinality(CheckedOn(k))
              IN /\ (YearDates[k] \in DOMAIN scores) <=> (total > 0)
                 /\ (total > 0) =>
                       /\ IsPercentTenths(scores[YearDates[k]], completed, total)
                       /\ (completed = 0) => scores[YearDates[k]] = 0
                       /\ (completed = total) => scores[YearDates[k]] = 1000

\* three pages of the week of Jan 5, 2026: one with every box ticked, one with
\* Monday only, one with none.  Monday scores 66.7, Tuesday 33.3, the next
\* Monday is absent.
C19_Witness ==
    /\ ScoresReady
    /\ Len(pages) = 3
    /\ scores[<<"2", "0", "2", "6", "-", "0", "1", "-", "0", "5">>] = 667
    /\ scores[<<"2", "0", "2", "6", "-", "0", "1", "-", "0", "6">>] = 333
    /\ <<"2", "0", "2", "6", "-", "0", "1", "-", "1", "2">> \notin DOMAIN scores
    /\ Cardinality(DOMAIN scores) = 7

\* sum of the values of a mapping
RECURSIVE SumOver(_, _)
SumOver(f, keys) ==
    IF keys = {} THEN 0
    ELSE LET key == CHOOSE x \in keys : TRUE IN f[key] + SumOver(f, keys \ {key})

\* C20: average_score is the sum of the scores of the days of YEAR, the days
\* absent from the map adding 0, divided by the number of days of YEAR (365
\* or 366) and rounded to one decimal; it is not the mean of the tracked days.
C20_AverageScore ==
    ScoresReady =>
        LET n == YearDec31 - YearJan1 + 1
            sum == SumOver(scores, DOMAIN scores)
        IN /\ n \in {365, 366}
           /\ stats.total_days = n
           /\ DOMAIN scores \subseteq Range(YearDates)
           /\ 2 * Abs(stats.avg_score * n - sum) <= n

\* seven tracked days, all at 100.0: the average is 7 * 100 / 365 = 1.9
C20_Witness ==
    /\ ScoresReady
    /\ Cardinality(DOMAIN scores) = 7
    /\ \A str \in DOMAIN scores : scores[str] = 1000
    /\ stats.avg_score = 19
    /\ stats.perfect_days = 7

-----------------------------------------------------------------------------
(* The streaks *)

\* generate_html ran: date.today() was read
StreaksReady == ScoresReady /\ streaks.today # 0

\* the k-th day of YEAR has a positive score in the score map
PositiveDay(k) == YearDates[k] \in DOMAIN scores /\ scores[YearDates[k]] > 0

\* position in YEAR of min(today, Dec 31); below 1 when today is before Jan 1
LastCounted == Min(streaks.today, YearDec31) - YearJan1 + 1

\* the days lo..hi of YEAR all have a positive score
PositiveRun(lo, hi) == \A k \in lo..hi : PositiveDay(k)

\* C21: current_streak is the number of consecutive days with a positive
\* score counted backward from min(today, Dec 31 of YEAR): every counted day
\* is positive and the day before the first counted one is not positive or
\* lies before Jan 1.  It is 0 when the starting day is not positive and 0
\* when today is before Jan 1 of YEAR.
C21_CurrentStreak ==
    StreaksReady =>
        LET n == streaks.current_streak IN
        /\ n >= 0
        /\ LastCounted < 1 => n = 0
        /\ LastCounted >= 1 =>
              /\ n <= LastCounted
              /\ PositiveRun(LastCounted - n + 1, LastCounted)
              /\ n < LastCounted => ~PositiveDay(LastCounted - n)
              /\ ~PositiveDay(LastCounted) => n = 0

\* today is Jan 11, 2026, the whole week of Jan 5 is positive and Jan 4 is
\* not, the last days of December are positive as well: the streak is 7
C21_Witness ==
    /\ StreaksReady
    /\ streaks.today = Date(YEAR, 1, 11)
    /\ streaks.current_streak = 7
    /\ PositiveDay(365)
    /\ ~PositiveDay(4)

\* C22: longest_streak is the greatest length of a run of consecutive days
\* with a positive score among the days from Jan 1 through min(today, Dec 31
\* of YEAR); days after today do not count, and it is 0 when no day of that
\* range is positive.
C22_LongestStreak ==
    StreaksReady =>
        LET n == streaks.longest_streak
            last == IF LastCounted < 1 THEN 0 ELSE LastCounted
        IN /\ n \in 0..last
           /\ n > 0 => \E lo \in 1..(last - n + 1) : PositiveRun(lo, lo + n - 1)
           /\ \A lo \in 1..(last - n) : ~PositiveRun(lo, lo + n)
           /\ (\A k \in 1..last : ~PositiveDay(k)) => n = 0

\* today is Jan 7, 2026: the week of Jan 5 is positive, so the longest run up
\* to today has 3 days, and the 4 positive days at the end of December, which
\* are after today, do not count
C22_Witness ==
    /\ StreaksReady
    /\ streaks.today = Date(YEAR, 1, 7)
    /\ streaks.longest_streak = 3
    /\ PositiveRun(362, 365)
    /\ PositiveRun(5, 11)

-----------------------------------------------------------------------------
(* The records a sync run creates *)

\* the metric whose bucket the k-th create of the running sync command fills
CreatedFor(k) ==
    IF cmd.name = "add_metric"
    THEN [name |-> cmd.metric, category |-> cmd.category, target |-> cmd.target]
    ELSE CHOOSE m \in Range(cmd.metrics) : <<m.name>> = hist.creates[k].Metric

\* number of days of the owning month of the k-th created record
OwningMonthDays(k) == DaysInMonth(YEAR, MonthIndex(hist.creates[k].Month[1]))

SyncWeeks == IF cmd.name = "add_metric" THEN AddMetricWeeks ELSE SetupWeeks

\* the metrics the running sync command was given
SyncMetrics ==
    IF cmd.name = "add_metric"
    THEN {[name |-> cmd.metric, category |-> cmd.category, target |-> cmd.target]}
    ELSE Range(cmd.metrics)

\* C24: the k-th record a sync run creates, for the k-th missing (metric,
\* bucket) pair, carries the metric's name and category, the bucket's key,
\* owning month and label, the seven boxes Mon..Sun unticked, streak 0 and the
\* metric's weekly target as it is; the store holds it as a new un-archived page.
C24_CreatedContents ==
    (cmd.name \in SyncCommands) =>
        \A k \in 1..Len(hist.creates) :
            LET r == hist.creates[k]
                name == ExpectedCreates[k][1]
                key == ExpectedCreates[k][2]
                page == trackerDb[Len(hist.startTracker) + k]
            IN /\ \E m \in SyncMetrics :
                    /\ m.name = name
                    /\ r.Metric = <<m.name>>
                    /\ r.Category = <<m.category>>
                    /\ r.Weekly_Target = m.target
               /\ \E i \in 1..Len(SyncWeeks) :
                    /\ SyncWeeks[i].week_key = key
                    /\ r.Week = <<key>>
                    /\ r.Month = <<SyncWeeks[i].month_name>>
                    /\ r.Week_Dates = SyncWeeks[i].label
               /\ \A d \in DayNameSet : r[d] = FALSE
               /\ r.Streak = 0
               /\ DOMAIN r = {"Metric", "Category", "Month", "Week", "Week_Dates",
                              "Weekly_Target", "Streak"} \cup DayNameSet
               /\ page.properties = r
               /\ ~page.archived

\* add_metric Exercise (Health, target 5) completed and created the record of
\* the second week of January
C24_Witness ==
    /\ cmd.name = "add_metric"
    /\ pc = "idle" /\ exit = "0"
    /\ \E k \in 1..Len(hist.creates) :
          /\ hist.creates[k].Metric = <<"Exercise">>
          /\ hist.creates[k].Category = <<"Health">>
          /\ hist.creates[k].Week = <<<<"W", "0", "2">>>>
          /\ hist.creates[k].Month = <<"January">>
          /\ hist.creates[k].Weekly_Target = 5
          /\ Len(hist.creates[k].Week_Dates) > 0

-----------------------------------------------------------------------------
(* The bucketers of the three scripts side by side *)

\* the week keys of a list of weeks, in order
KeysOf(weeks) == [i \in 1..Len(weeks) |-> weeks[i].week_key]

\* C25: for every year the three get_weeks return lists of the same length
\* with the same keys in the same order; setup and generate_heatmap agree on
\* the Monday and the seven member days of each key, setup and add_metric on
\* its owning month and its label.
C25_SameBuckets ==
    (gws # NoAllWeeks) =>
        /\ Len(gws.setup) = Len(gws.add_metric)
        /\ Len(gws.setup) = Len(gws.generate_heatmap)
        /\ KeysOf(gws.setup) = KeysOf(gws.add_metric)
        /\ KeysOf(gws.setup) = KeysOf(gws.generate_heatmap)
        /\ \A i \in 1..Len(gws.setup) :
              /\ gws.setup[i].monday = gws.generate_heatmap[i].monday
              /\ gws.setup[i].days = gws.generate_heatmap[i].days
              /\ gws.setup[i].month_name = gws.add_metric[i].month_name
              /\ gws.setup[i].label = gws.add_metric[i].label

\* 2012: Jan 1 is a Sunday, so the first week starts on Dec 26, 2011 and is
\* owned by January in both setup and add_metric
C25_Witness ==
    /\ gws.year = 2012
    /\ Len(gws.generate_heatmap) > 52
    /\ gws.setup[1].monday = Date(2011, 12, 26)
    /\ gws.generate_heatmap[1].days["Sun"] = Date(2012, 1, 1)
    /\ gws.add_metric[1].month_name = "January"

\* C26: every week key get_weeks(year) produces is one of the options W01..W53
\* of the Week select that create_tracker_database defines: get_weeks yields
\* at most 53 weeks, also for a leap year whose Jan 1 is a Sunday.
C26_KeysFitSchema ==
    (gw # NoWeeks) =>
        /\ Len(gw.weeks) <= Cardinality(week_options)
        /\ \A i \in 1..Len(gw.weeks) : gw.weeks[i].week_key \in week_options

-----------------------------------------------------------------------------
(* Retried creates *)

\* records the tracker store gained since the running command started
AddedRecords == Len(trackerDb) - Len(hist.startTracker)

\* C27: one logical create issued through api_call adds at most one record to
\* the store, also when the store applies a create and answers it with a
\* transient failure so that api_call invokes it again: the store never gained
\* more records than logical creates were issued (count completed, at most one
\* under way), a completed run added exactly count, and no two un-archived
\* records share (metric, week key).
C27_RetriesDoNotDuplicate ==
    (cmd.name \in SyncCommands) =>
        /\ AddedRecords <= count + 1
        /\ (pc = "idle" /\ exit = "0") => AddedRecords = count
        /\ \A i, j \in Live(trackerDb) :
              (/\ trackerDb[i].properties.Week # None
               /\ trackerDb[i].properties.Week = trackerDb[j].properties.Week
               /\ trackerDb[i].properties.Metric = trackerDb[j].properties.Metric) => i = j

-----------------------------------------------------------------------------
(* Deletion resumed *)

\* the running delete_metric repeats, for the same name, a delete_metric that
\* raised after it had archived the Metric record; it was not declined and has
\* ended without an exception
C28_Rerun ==
    /\ cmd.name = "delete_metric"
    /\ prev.cmd = cmd
    /\ prev.exit = "raised"
    /\ \E i \in 1..Len(hist.startMetrics) :
          /\ hist.startMetrics[i].archived
          /\ hist.startMetrics[i].properties.Name = <<cmd.metric>>
    /\ ~C12_Declined
    /\ pc = "idle" /\ exit \in {"0", "1"}

\* C28: when a confirmed delete_metric NAME aborted with a remote error after
\* archiving had begun, running delete_metric NAME again archives the
\* TrackerRecords of NAME that are still un-archived: once the second run has
\* ended, no un-archived record of NAME remains.
C28_ResumableDeletion ==
    C28_Rerun =>
        /\ \A i \in Live(trackerDb) : trackerDb[i].properties.Metric # <<cmd.metric>>
        /\ \A i \in Live(metricsDb) : metricsDb[i].properties.Name # <<cmd.metric>>

-----------------------------------------------------------------------------
(* The tracker widget *)

\* the ticked boxes of the un-archived tracker records that carry a metric
\* name and an owning month: (record, day name)
TickedBoxes ==
    {b \in Live(trackerDb) \X DayNameSet :
        /\ trackerDb[b[1]].properties.Metric # <<>>
        /\ trackerDb[b[1]].properties.Month # None
        /\ trackerDb[b[1]].properties[b[2]]}

\* C29: once generate_tracker has fetched the tracker data, every ticked box
\* of a record appears as a checked day of the record's metric in the mapping
\* fetch_tracker_data returned, and the mapping has as many checked days as
\* the store has ticked boxes.
C29_WidgetReadsBoxes ==
    (cmd.name = "generate_tracker" /\ pc = "idle" /\ exit = "0") =>
        /\ \A b \in TickedBoxes :
              \E entry \in data.checked :
                  /\ <<entry[1]>> = trackerDb[b[1]].properties.Month
                  /\ <<entry[2]>> = trackerDb[b[1]].properties.Metric
        /\ Cardinality(data.checked) = Cardinality(TickedBoxes)

-----------------------------------------------------------------------------
(* Ordering of the heatmap statistics *)

\* C30: whatever the score map and today, current_streak <= longest_streak
\* <= active_days and perfect_days <= active_days, and every score of the map
\* is between 0 and 100 (0 and 1000 tenths).
C30_StatisticOrdering ==
    StreaksReady =>
        /\ streaks.current_streak <= streaks.longest_streak
        /\ streaks.longest_streak <= stats.active_days
        /\ stats.perfect_days <= stats.active_days
        /\ \A str \in DOMAIN scores : scores[str] \in 0..1000

\* today is after the year: the 4 positive days that end it are the current
\* streak, the week of Jan 5 is the longest one, and only some of the active
\* days are perfect
C30_Witness ==
    /\ StreaksReady
    /\ streaks.today > YearDec31
    /\ streaks.current_streak = 4
    /\ streaks.longest_streak = 7
    /\ stats.active_days = 11
    /\ stats.perfect_days = 5
    /\ \E str \in DOMAIN scores : scores[str] = 500

=============================================================================
